---- MODULE Spec2Model ----
(***************************************************************************)
(* Verification model of the replay / return / loss core of the IQA agent  *)
(* (src/agent.py, src/train.py) together with the replay memories that    *)
(* agent.py imports (command_generation_memory, qa_memory).                *)
(*                                                                         *)
(* The module holds several independent sub-systems, each with its own     *)
(* specification over the shared variable tuple `vars`:                    *)
(*   SpecCounter     Agent.reset_binarized_counter / get_binarized_count   *)
(*   SpecReturns     the Monte-Carlo return loop of get_actor_critic_loss  *)
(*   SpecProj        the categorical projection of get_dqn_loss            *)
(*   SpecTree        the sum-tree priority index of the replay memories    *)
(*   SpecMem         the off-policy replay memory: push, len, get_batch    *)
(*                                                                         *)
(* command_generation_memory and qa_memory are imported by src/agent.py    *)
(* but their source is not part of src/; the sum-tree and the replay       *)
(* memory are modelled from sections 3, 4.1 and 4.2 of the specification   *)
(* and from the calls src/agent.py and src/train.py make.                  *)
(*                                                                         *)
(* Real-valued quantities (rewards, discounts, supports, probabilities)   *)
(* are exact rationals [n, d] in lowest terms with d > 0.                  *)
(***************************************************************************)
EXTENDS Integers, Sequences, FiniteSets, TLC

VARIABLES
    \* ---- state-visitation counter (Agent) ----
    binarized_counter_dict,  \* self.binarized_counter_dict: one dict per game slot
    count_rewards,           \* value returned by the last get_binarized_count call
    count_call,              \* arguments of the last call ("none" after init)
    count_hist,              \* per slot and key: results of the update=True calls since the last reset
    count_resets,            \* TRUE once a reset has discarded a non-empty dict
    \* ---- agent configuration (Agent.load_config) ----
    discount_gamma,          \* self.discount_gamma
    v_min,                   \* self.v_min
    v_max,                   \* self.v_max
    \* ---- Monte-Carlo returns (Agent.get_actor_critic_loss) ----
    rewards,                 \* rewards of the batch returned by get_batch()
    is_finals,               \* is_finals of the batch
    returns,                 \* the list `returns` under construction
    Gt,                      \* the running return
    ret_i,                   \* number of loop iterations done
    ret_pc,                  \* "idle" | "loop" | "done" | "loss"
    state_values,            \* torch.stack(state_values): the critic's V_t of each stored step
    advantage,               \* returns - state_values * finals_mask
    value_losses,            \* 0.5 * advantage.pow(2).mean()
    \* ---- bootstrap target and categorical projection (Agent.get_dqn_loss) ----
    use_distributional,      \* self.use_distributional
    batch_rewards,           \* rewards of the sampled batch (n-step sums), one per sample
    actual_n_list,           \* actual_n of each sample
    window_final,            \* per sample: its n-step window ended at a transition with is_final
    next_q_value,            \* per sample: next-state value, or one probability per atom if distributional
    q_target,                \* rewards + next_q_value * discount (non-distributional target)
    b,                       \* b = (Tz - Vmin) / delta_z, per sample and atom
    l,                       \* lower bin index, per sample and atom
    u,                       \* upper bin index, per sample and atom
    m,                       \* projected target distribution, flattened (m.view(-1))
    proj_pc,                 \* "idle" | "start" | "target" | "nudged" | "done"
    \* ---- sum-tree priority index ----
    sumtree,                 \* [tree, data, write, n_entries]
    tree_found,              \* result of the last find(v): [v, idx, priority]
    \* ---- off-policy replay memory (command_generation_replay_memory) ----
    priority_fraction,       \* replay_memory_priority_fraction
    multi_step,              \* self.multi_step
    replay,                  \* [all, prior]: the all-store and the prior-only store, each a sum-tree
    mem_cur,                 \* trajectory being pushed: [traj, pos, is_prior]
    mem_pushed,              \* every transition pushed so far, in push order
    mem_batch,               \* last get_batch: [status: "nocall" | "None" | "batch", samples]
    \* ---- update_interaction / update_qa in DQN mode ----
    qa_replay,               \* self.qa_replay_memory: a sum-tree store of QA transitions
    update_call,             \* last update call: [fn, ret, optimizer_step, len, data]
    \* ---- on-policy episode storage and the actor-critic update ----
    learn_start_from_this_episode,  \* self.learn_start_from_this_episode
    episode_no,              \* episode_no of train()
    a2c_pc,                  \* "api" | "update" (top of the episode loop) | "play"
    storage,                 \* SingleEpisodeStorage: the stored transitions, in order
    a2c_pushed,              \* number of transitions pushed so far
    a2c_fresh,               \* transitions pushed since the last clear(), in push order
    a2c_update,              \* last update_interaction: [called, fresh, before, data, kept, ret, clears, optimizer_step]
    a2c_used,                \* ids of the transitions that were part of an update batch
    a2c_reused,              \* TRUE once a transition was part of two update batches
    \* ---- next-state value of one sample (Agent.get_dqn_loss, non-distributional) ----
    double_dqn,              \* self.double_dqn
    next_local_word_masks,   \* per command slot: the mask over the vocabulary
    online_next_ranks,       \* per slot: scores of the online network at the next state
    target_next_ranks,       \* per slot: scores of the target network at the next state
    next_word_indices,       \* per slot: the word chosen by choose_maxQ_command
    next_word_qvalues,       \* per slot: the score gathered at the chosen word
    next_q,                  \* torch.mean(torch.stack(next_word_qvalues, -1), -1)
    nextq_pc,                \* "idle" | "ranks" | "chosen" | "valued"
    \* ---- one episode batch of train(): game steps, rewards, pushes ----
    use_intrinsic_reward,    \* agent.icm and agent.use_intrinsic_reward
    revisit_counting_lambda, \* agent.revisit_counting_lambda
    valid_command_bonus_lambda,  \* agent.valid_command_bonus_lambda
    step_no,                 \* step_no of the game step loop
    prev_wait,               \* per game: agent.prev_actions[-1][i] == "wait"
    not_finished_yet,        \* agent.not_finished_yet
    prev_step_is_still_interacting,  \* agent.prev_step_is_still_interacting
    transition_cache,        \* per step: [mask, counting, valid], each per game
    sufficient_info_reward_np,   \* per game and step, from reward_helper
    command_rewards,         \* per game and step: the shaped reward
    qa_reward_np,            \* per game: 1 when the answer given was correct, else 0
    qa_pushed,               \* the QA transitions pushed to the QA memory, in push order
    ep_pushed,               \* transitions pushed to the command-generation memory, in order
    ep_pc,                   \* "idle" | "steps" | "rewards" | "push" | "done"
    \* ---- end of an episode (Agent.finish_of_episode) ----
    a2c,                     \* self.a2c
    noisy_net,               \* self.noisy_net
    target_net_update_frequency,  \* self.target_net_update_frequency
    epsilon_anneal_episodes, \* self.epsilon_anneal_episodes
    revisit_counting_lambda_anneal_episodes,  \* self.revisit_counting_lambda_anneal_episodes
    epsilon,                 \* self.epsilon
    target_updated,          \* the last finish_of_episode called update_target_net
    episode_batch_size,      \* batch_size = len(obs): the games played concurrently
    \* ---- the game loop of train() ----
    update_per_k_game_steps, \* agent.update_per_k_game_steps
    step_in_total,           \* game steps taken since the start of training
    train_pc,                \* "idle" | "loop" | "steps" | "finish" | "end"
    episodes_run,            \* episode batches completed
    steps_run,               \* iterations of the step loop in the current episode
    updates_in_episode,      \* update_interaction/update_qa rounds in the current episode
    last_update,             \* where the last update round was called from
    \* ---- configuration of the game loop ----
    max_nb_steps_per_episode \* agent.max_nb_steps_per_episode

configVars == <<discount_gamma, v_min, v_max>>
counterVars == <<binarized_counter_dict, count_rewards, count_call, count_hist, count_resets>>
returnVars == <<rewards, is_finals, returns, Gt, ret_i, ret_pc, state_values, advantage,
                value_losses>>
projVars == <<use_distributional, batch_rewards, actual_n_list, window_final, next_q_value,
              q_target, b, l, u, m, proj_pc>>
treeVars == <<sumtree, tree_found>>
memVars == <<priority_fraction, multi_step, replay, mem_cur, mem_pushed, mem_batch>>
updateVars == <<qa_replay, update_call>>

\* The sub-systems of the learning step and of the training loop.
a2cRunVars == <<a2c_pc, storage, a2c_pushed, a2c_fresh, a2c_update, a2c_used, a2c_reused>>
a2cVars == <<learn_start_from_this_episode, episode_no, a2cRunVars>>
nextqVars == <<double_dqn, next_local_word_masks, online_next_ranks, target_next_ranks,
               next_word_indices, next_word_qvalues, next_q, nextq_pc>>
episodeRunVars == <<use_intrinsic_reward, valid_command_bonus_lambda,
                    step_no, prev_wait, not_finished_yet, prev_step_is_still_interacting,
                    transition_cache, sufficient_info_reward_np, command_rewards, qa_reward_np, qa_pushed,
                    ep_pushed, ep_pc>>
episodeVars == <<revisit_counting_lambda, episodeRunVars>>
finishVars == <<a2c, noisy_net, target_net_update_frequency, epsilon_anneal_episodes,
                revisit_counting_lambda_anneal_episodes, epsilon, target_updated,
                episode_batch_size>>
trainVars == <<update_per_k_game_steps, step_in_total, train_pc, episodes_run, steps_run,
               updates_in_episode, last_update>>
limitVars == <<max_nb_steps_per_episode>>
extVars == <<updateVars, a2cVars, nextqVars, episodeVars, finishVars, trainVars, limitVars>>

vars == <<configVars, counterVars, returnVars, projVars, treeVars, memVars, extVars>>

\* What the actions of one sub-system leave alone.
notCounter == <<configVars, returnVars, projVars, treeVars, memVars, extVars>>
notReturns == <<configVars, counterVars, projVars, treeVars, memVars, extVars>>
notProj == <<configVars, counterVars, returnVars, treeVars, memVars, extVars>>
notTree == <<configVars, counterVars, returnVars, projVars, memVars, extVars>>
notMem == <<configVars, counterVars, returnVars, projVars, treeVars, extVars>>

(***************************************************************************)
(* Exact rational arithmetic                                               *)
(***************************************************************************)

Abs(x) == IF x < 0 THEN -x ELSE x

RECURSIVE GCD(_, _)
GCD(x, y) == IF y = 0 THEN x ELSE GCD(y, x % y)

\* n/d in lowest terms, d > 0 on entry.
Rat(n, d) == LET g == GCD(Abs(n), d) IN [n |-> n \div g, d |-> d \div g]
RInt(k) == [n |-> k, d |-> 1]
RZero == RInt(0)
ROne == RInt(1)
RAdd(x, y) == Rat(x.n * y.d + y.n * x.d, x.d * y.d)
RNeg(x) == [n |-> -x.n, d |-> x.d]
RSub(x, y) == RAdd(x, RNeg(y))
RMul(x, y) == Rat(x.n * y.n, x.d * y.d)
\* x / y for y > 0
RDiv(x, y) == Rat(x.n * y.d, x.d * y.n)
RLt(x, y) == x.n * y.d < y.n * x.d
RLe(x, y) == x.n * y.d <= y.n * x.d
RMin(x, y) == IF RLe(x, y) THEN x ELSE y
RMax(x, y) == IF RLe(x, y) THEN y ELSE x
RFloor(x) == x.n \div x.d
RCeil(x) == -((-x.n) \div x.d)
RECURSIVE RPow(_, _)
RPow(x, k) == IF k = 0 THEN ROne ELSE RMul(x, RPow(x, k - 1))

\* Values of the variables of a sub-system that is not running.
IdleCounter ==
    /\ binarized_counter_dict = <<>>
    /\ count_rewards = <<>>
    /\ count_call = [kind |-> "none"]
    /\ count_hist = <<>>
    /\ count_resets = FALSE

IdleConfig ==
    /\ discount_gamma = RZero
    /\ v_min = RZero
    /\ v_max = RZero

IdleReturns ==
    /\ rewards = <<>>
    /\ is_finals = <<>>
    /\ returns = <<>>
    /\ Gt = RZero
    /\ ret_i = 0
    /\ ret_pc = "idle"
    /\ state_values = <<>>
    /\ advantage = <<>>
    /\ value_losses = RZero

IdleProj ==
    /\ use_distributional = FALSE
    /\ batch_rewards = <<>>
    /\ actual_n_list = <<>>
    /\ window_final = <<>>
    /\ next_q_value = <<>>
    /\ q_target = <<>>
    /\ b = <<>>
    /\ l = <<>>
    /\ u = <<>>
    /\ m = <<>>
    /\ proj_pc = "idle"

NoBatch == [status |-> "nocall", samples |-> <<>>]

NoUpdate == [fn |-> "none", ret |-> "None", optimizer_step |-> FALSE, len |-> 0, data |-> "nocall"]

IdleUpdate ==
    /\ qa_replay = <<>>
    /\ update_call = NoUpdate

NoA2CUpdate == [called |-> FALSE, fresh |-> <<>>, before |-> <<>>,
                data |-> [status |-> "nocall", items |-> <<>>], kept |-> <<>>,
                ret |-> "None", clears |-> 0, optimizer_step |-> FALSE]

IdleA2C ==
    /\ learn_start_from_this_episode = 0
    /\ episode_no = 0
    /\ a2c_pc = "idle"
    /\ storage = <<>>
    /\ a2c_pushed = 0
    /\ a2c_fresh = <<>>
    /\ a2c_update = NoA2CUpdate
    /\ a2c_used = {}
    /\ a2c_reused = FALSE

IdleNextQ ==
    /\ double_dqn = FALSE
    /\ next_local_word_masks = <<>>
    /\ online_next_ranks = <<>>
    /\ target_next_ranks = <<>>
    /\ next_word_indices = <<>>
    /\ next_word_qvalues = <<>>
    /\ next_q = RZero
    /\ nextq_pc = "idle"

IdleEpisode ==
    /\ use_intrinsic_reward = FALSE
    /\ revisit_counting_lambda = RZero
    /\ valid_command_bonus_lambda = RZero
    /\ step_no = 0
    /\ prev_wait = <<>>
    /\ not_finished_yet = <<>>
    /\ prev_step_is_still_interacting = <<>>
    /\ transition_cache = <<>>
    /\ sufficient_info_reward_np = <<>>
    /\ command_rewards = <<>>
    /\ qa_reward_np = <<>>
    /\ qa_pushed = <<>>
    /\ ep_pushed = <<>>
    /\ ep_pc = "idle"

IdleFinish ==
    /\ a2c = FALSE
    /\ noisy_net = FALSE
    /\ target_net_update_frequency = 1
    /\ epsilon_anneal_episodes = 0
    /\ revisit_counting_lambda_anneal_episodes = 0
    /\ epsilon = RZero
    /\ target_updated = FALSE
    /\ episode_batch_size = 1

NoTrainUpdate == [mode |-> "none", episode_no |-> 0, step_in_total |-> 0, place |-> "none"]

IdleTrain ==
    /\ update_per_k_game_steps = 1
    /\ step_in_total = 0
    /\ train_pc = "idle"
    /\ episodes_run = 0
    /\ steps_run = 0
    /\ updates_in_episode = 0
    /\ last_update = NoTrainUpdate

IdleLimit == max_nb_steps_per_episode = 1

IdleExt ==
    IdleUpdate /\ IdleA2C /\ IdleNextQ /\ IdleEpisode /\ IdleFinish /\ IdleTrain /\ IdleLimit

IdleTree ==
    /\ sumtree = <<>>
    /\ tree_found = <<>>

IdleMem ==
    /\ priority_fraction = RZero
    /\ multi_step = 0
    /\ replay = <<>>
    /\ mem_cur = <<>>
    /\ mem_pushed = <<>>
    /\ mem_batch = NoBatch

(***************************************************************************)
(* State-visitation counter                                                *)
(***************************************************************************)

\* Largest stored visit count explored (guard on update=True calls).
MaxCount == 3

\* Game slots of one batch (batch_size = len(obs)) and observation keys.
Slots == 0 .. 1
Keys == {"kitchen", "garden"}

EmptyDict == [k \in {} |-> 0]

NoCall == [kind |-> "none"]

\* A reset that forgets to create fresh dictionaries.
ResetKeepsCounts(old) == old

\* reset_binarized_counter: [{} for _ in range(batch_size)]
ResetBinarizedCounter(old) == [i \in Slots |-> EmptyDict]

\* r = float(r == 1.0)
Binarize(r) == IF r = 1 THEN 1 ELSE 0

\* An iteration that increments the count whatever `update` says.
CountStepAlwaysUpdates(d, key, update) ==
    LET d1 == IF key \notin DOMAIN d
              THEN [k \in DOMAIN d \cup {key} |-> IF k = key THEN 0 ELSE d[k]]
              ELSE d
        d2 == [d1 EXCEPT ![key] = @ + 1]
    IN  [dict |-> d2, r |-> Binarize(d2[key])]

\* One iteration of the loop of get_binarized_count on the dict d of one slot:
\* the dict after the iteration and the reward appended to count_rewards.
CountStep(d, key, update) ==
    LET d1 == IF key \notin DOMAIN d
              THEN [k \in DOMAIN d \cup {key} |-> IF k = key THEN 0 ELSE d[k]]
              ELSE d
        d2 == IF update THEN [d1 EXCEPT ![key] = @ + 1] ELSE d1
    IN  [dict |-> d2, r |-> Binarize(d2[key])]

InitCounter ==
    /\ binarized_counter_dict = [i \in Slots |-> EmptyDict]
    /\ count_rewards = [i \in Slots |-> 0]
    /\ count_call = NoCall
    /\ count_hist = [i \in Slots |-> [k \in Keys |-> <<>>]]
    /\ count_resets = FALSE
    /\ IdleConfig /\ IdleReturns /\ IdleProj /\ IdleTree /\ IdleMem /\ IdleExt

\* Agent.init: reset_binarized_counter(batch_size) at the start of an episode batch.
init ==
    /\ binarized_counter_dict' = ResetBinarizedCounter(binarized_counter_dict)
    /\ count_resets' = (count_resets \/ \E i \in Slots : DOMAIN binarized_counter_dict[i] # {})
    /\ count_hist' = [i \in Slots |-> [k \in Keys |-> <<>>]]
    /\ count_call' = NoCall
    /\ count_rewards' = [i \in Slots |-> 0]
    /\ UNCHANGED notCounter

\* Agent.get_binarized_count(observation_strings, update)
get_binarized_count ==
    \E observation_strings \in [Slots -> Keys], update \in BOOLEAN :
        LET step(i) == CountStep(binarized_counter_dict[i], observation_strings[i], update)
        IN  /\ update => \A i \in Slots :
                   LET key == observation_strings[i]
                   IN  key \in DOMAIN binarized_counter_dict[i]
                          => binarized_counter_dict[i][key] < MaxCount
            /\ binarized_counter_dict' = [i \in Slots |-> step(i).dict]
            /\ count_rewards' = [i \in Slots |-> step(i).r]
            /\ count_call' = [kind |-> "count", obs |-> observation_strings, update |-> update]
            /\ count_hist' = [i \in Slots |-> [k \in Keys |->
                   IF update /\ k = observation_strings[i]
                   THEN Append(count_hist[i][k], step(i).r)
                   ELSE count_hist[i][k]]]
            /\ UNCHANGED count_resets
            /\ UNCHANGED notCounter

NextCounter == init \/ get_binarized_count

SpecCounter == InitCounter /\ [][NextCounter]_vars

\* The key of slot i had an update=True call since the last reset, before the last call.
VisitedBefore(i) ==
    LET k == count_call.obs[i]
    IN  Len(count_hist[i][k]) - (IF count_call.update THEN 1 ELSE 0) > 0

\* C5: in every slot and for every key, the results of the update=True calls
\* since the last reset (Agent.init) are 1.0 for the first call and 0.0 for
\* every later one, whatever happens in the other slots and in earlier episodes.
C5_CountingBonusIsolated ==
    \A i \in Slots : \A k \in Keys :
        \A n \in 1 .. Len(count_hist[i][k]) :
            count_hist[i][k][n] = (IF n = 1 THEN 1 ELSE 0)

\* Reached: after a reset that dropped earlier counts, one slot saw a key three
\* times (1, 0, 0) while the other slot has not seen that key at all.
C5_Witness ==
    /\ count_resets
    /\ \E i, j \in Slots : \E k \in Keys :
          /\ i # j
          /\ count_hist[i][k] = <<1, 0, 0>>
          /\ count_hist[j][k] = <<>>

\* C6 (as claimed): for either value of update the call returns 1.0 exactly
\* when the key was not visited before in this episode.
C6_FirstVisitEitherUpdate ==
    count_call.kind = "count" =>
        \A i \in Slots : count_rewards[i] = (IF VisitedBefore(i) THEN 0 ELSE 1)

(***************************************************************************)
(* Monte-Carlo returns of get_actor_critic_loss                            *)
(***************************************************************************)

\* Longest stored sequence, largest reward and largest discount denominator explored.
MaxLen == 3
MaxReward == 1
MaxGammaDen == 2

\* Discount factors in [0, 1].
Gammas == UNION {{Rat(n, d) : n \in 0 .. d} : d \in 1 .. MaxGammaDen}

\* The loop body without the reset at a terminal flag.
ReturnStepNoReset(G, reward, final, gamma) == RAdd(reward, RMul(gamma, G))

\* if is_finals[::-1][i]: Gt = 0.0
\* Gt = reward + self.discount_gamma * Gt
ReturnStep(G, reward, final, gamma) ==
    LET G0 == IF final THEN RZero ELSE G
    IN  RAdd(reward, RMul(gamma, G0))

\* Critic values explored.
StateValues == {RInt(-1), RInt(2)}

\* A mask that never zeroes the value term.
FinalsMaskAlwaysOne(final) == ROne

\* finals_mask = 1 - to_pt(np.array(is_finals, dtype=bool), ...)
finals_mask(final) == RSub(ROne, IF final THEN ROne ELSE RZero)

RECURSIVE SeqSum(_, _)
\* x[1] + ... + x[n]
SeqSum(x, n) == IF n = 0 THEN RZero ELSE RAdd(SeqSum(x, n - 1), x[n])

\* tensor.mean() of a non-empty vector.
Mean(x) == RDiv(SeqSum(x, Len(x)), RInt(Len(x)))

\* data = get_batch(): a non-empty stored sequence of rewards and terminal flags.
InitReturns ==
    /\ IdleCounter /\ IdleProj /\ IdleTree /\ IdleMem /\ IdleExt
    /\ discount_gamma \in Gammas
    /\ v_min = RZero
    /\ v_max = RZero
    /\ \E len \in 1 .. MaxLen :
          /\ rewards \in [1 .. len -> {RInt(r) : r \in 0 .. MaxReward}]
          /\ is_finals \in [1 .. len -> BOOLEAN]
    /\ returns = <<>>
    /\ Gt = RZero
    /\ ret_i = 0
    /\ ret_pc = "loop"
    /\ state_values = <<>>
    /\ advantage = <<>>
    /\ value_losses = RZero

\* One iteration of `for i, reward in enumerate(rewards[::-1])`.
ReturnLoop ==
    /\ ret_pc = "loop"
    /\ ret_i < Len(rewards)
    /\ LET t == Len(rewards) - ret_i   \* position of rewards[::-1][i] in rewards
           G == ReturnStep(Gt, rewards[t], is_finals[t], discount_gamma)
       IN  /\ Gt' = G
           /\ returns' = <<G>> \o returns          \* returns.insert(0, Gt)
    /\ ret_i' = ret_i + 1
    /\ UNCHANGED <<rewards, is_finals, ret_pc, state_values, advantage, value_losses>>
    /\ UNCHANGED notReturns

\* returns = torch.stack(returns)
ReturnStack ==
    /\ ret_pc = "loop"
    /\ ret_i = Len(rewards)
    /\ ret_pc' = "done"
    /\ UNCHANGED <<rewards, is_finals, returns, Gt, ret_i, state_values, advantage,
                   value_losses>>
    /\ UNCHANGED notReturns

\* state_values = torch.stack(state_values): one critic value per stored step
\* advantage = returns - state_values * finals_mask
\* value_losses = 0.5 * advantage.pow(2).mean()
AdvantageLoss ==
    /\ ret_pc = "done"
    /\ state_values' \in [1 .. Len(returns) -> StateValues]
    /\ LET adv == [t \in 1 .. Len(returns) |->
                     RSub(returns[t], RMul(state_values'[t], finals_mask(is_finals[t])))]
       IN  /\ advantage' = adv
           /\ value_losses' = RMul(Rat(1, 2), Mean([t \in 1 .. Len(adv) |-> RMul(adv[t], adv[t])]))
    /\ ret_pc' = "loss"
    /\ UNCHANGED <<rewards, is_finals, returns, Gt, ret_i>>
    /\ UNCHANGED notReturns

NextReturns == ReturnLoop \/ ReturnStack \/ AdvantageLoss

SpecReturns == InitReturns /\ [][NextReturns]_vars

\* Position in `rewards` of the j-th entry of the partly built `returns`.
RetPos(j) == Len(rewards) - Len(returns) + j

\* Last position of the episode segment that position t belongs to.
RECURSIVE SegmentEnd(_)
SegmentEnd(t) == IF t = Len(rewards) \/ is_finals[t] THEN t ELSE SegmentEnd(t + 1)

\* sum over k in t..e of gamma^(k-t) * r_k
RECURSIVE DiscountedSum(_, _, _)
DiscountedSum(t, k, e) ==
    IF k > e THEN RZero
    ELSE RAdd(RMul(RPow(discount_gamma, k - t), rewards[k]), DiscountedSum(t, k + 1, e))

\* C2: every computed return satisfies G_t = r_t at a terminal flag or at the
\* last index and G_t = r_t + gamma * G_{t+1} otherwise; equivalently it is the
\* discounted sum of the rewards up to and including the next terminal flag,
\* and nothing beyond; rewards [1,1,1], last terminal, gamma 0.5 give
\* [1.75, 1.5, 1.0].
C2_MonteCarloReturns ==
    /\ \A j \in 1 .. Len(returns) :
          LET t == RetPos(j)
          IN  /\ returns[j] = (IF is_finals[t] \/ t = Len(rewards)
                               THEN rewards[t]
                               ELSE RAdd(rewards[t], RMul(discount_gamma, returns[j + 1])))
              /\ returns[j] = DiscountedSum(t, t, SegmentEnd(t))
    /\ (/\ ret_pc = "done"
        /\ rewards = <<ROne, ROne, ROne>>
        /\ is_finals = <<FALSE, FALSE, TRUE>>
        /\ discount_gamma = Rat(1, 2))
          => returns = <<Rat(7, 4), Rat(3, 2), ROne>>

\* Reached: the example of the specification, fully computed.
C2_Witness ==
    /\ ret_pc = "done"
    /\ rewards = <<ROne, ROne, ROne>>
    /\ is_finals = <<FALSE, FALSE, TRUE>>
    /\ discount_gamma = Rat(1, 2)
    /\ returns = <<Rat(7, 4), Rat(3, 2), ROne>>

\* C21: after the loss is computed, every step has A_t = G_t - V_t when it is
\* not terminal and A_t = G_t when it is terminal (the return is never
\* masked), and the value loss is 0.5 * mean(A_t^2).
C21_AdvantageMasking ==
    ret_pc = "loss" =>
        /\ Len(advantage) = Len(rewards)
        /\ \A t \in 1 .. Len(advantage) :
              advantage[t] = (IF is_finals[t] THEN returns[t]
                              ELSE RSub(returns[t], state_values[t]))
        /\ RMul(RInt(2 * Len(advantage)), value_losses)
              = SeqSum([t \in 1 .. Len(advantage) |-> RMul(advantage[t], advantage[t])],
                       Len(advantage))

\* Reached: a loss over a sequence with a terminal step whose critic value is
\* not 0 and whose return is not 0, and a non-terminal step with a non-zero value.
C21_Witness ==
    /\ ret_pc = "loss"
    /\ \E t \in 1 .. Len(advantage) :
          is_finals[t] /\ state_values[t] # RZero /\ advantage[t] # RZero
    /\ \E t \in 1 .. Len(advantage) :
          ~is_finals[t] /\ state_values[t] # RZero /\ advantage[t] # returns[t]
    /\ value_losses # RZero

(***************************************************************************)
(* Categorical projection (distributional branch of get_dqn_loss)          *)
(***************************************************************************)

\* self.atoms, and the largest actual_n explored.
atoms == 3
MaxN == 2

\* Positions of the samples in the batch (batch_size = 2), the source atoms,
\* and the probabilities explored (multiples of 1/2).
Batch == 0 .. 1
batch_size == Cardinality(Batch)
Atoms == 0 .. atoms - 1
ProbUnits == 0 .. 2
ProjRewards == {RInt(-1), Rat(1, 2)}
ProjGammas == {RZero, Rat(1, 2), ROne}
Supports == {<<RInt(-1), ROne>>, <<RZero, RInt(2)>>}

RECURSIVE RSum(_, _)
\* f[0] + ... + f[n-1]
RSum(f, n) == IF n = 0 THEN RZero ELSE RAdd(RSum(f, n - 1), f[n - 1])

\* self.support = torch.linspace(v_min, v_max, atoms)
support(i) == RAdd(v_min, RDiv(RMul(RInt(i), RSub(v_max, v_min)), RInt(atoms - 1)))

\* self.delta_z = (v_max - v_min) / (atoms - 1)
delta_z == RDiv(RSub(v_max, v_min), RInt(atoms - 1))

\* Next-state values explored in the non-distributional branch.
NextQs == {RInt(-2), RZero, ROne}

\* The discount of every sample uses the largest horizon.
DiscountNominal(s) == RPow(discount_gamma, MaxN)

\* discount = discount_gamma ** actual_n
discount(s) == RPow(discount_gamma, actual_n_list[s])

\* rewards + next_q_value * discount, for one sample
BootstrapTarget(s) == RAdd(batch_rewards[s], RMul(next_q_value[s], discount(s)))

\* The shifted support without the clamp.
TzUnclamped(s, i) == RAdd(batch_rewards[s], RMul(discount(s), support(i)))

\* Tz = (rewards + discount * support).clamp(min=v_min, max=v_max)
Tz(s, i) == RMax(v_min, RMin(v_max, RAdd(batch_rewards[s], RMul(discount(s), support(i)))))

\* The lower index is left alone when l = b = u.
NudgeLowerNever(lv, uv) == lv

\* l[(u > 0) * (l == u)] -= 1
NudgeLower(lv, uv) == IF uv > 0 /\ lv = uv THEN lv - 1 ELSE lv

\* The upper index is left alone when l = b = u.
NudgeUpperNever(lv, uv) == uv

\* u[(l < (atoms - 1)) * (l == u)] += 1
NudgeUpper(lv, uv) == IF lv < atoms - 1 /\ lv = uv THEN uv + 1 ELSE uv

\* next_q_value * (u.float() - b)  and  next_q_value * (b - l.float())
MassToLower(s, i) == RMul(next_q_value[s][i], RSub(RInt(u[s][i]), b[s][i]))
MassToUpper(s, i) == RMul(next_q_value[s][i], RSub(b[s][i], RInt(l[s][i])))

\* offset = linspace(0, (batch_size - 1) * atoms, batch_size) expanded over the atoms
offset(s) == s * atoms

\* m.view(-1).index_add_(0, (idx + offset).view(-1), src.view(-1))
IndexAdd(mm, idx, src) ==
    LET flat == 0 .. batch_size * atoms - 1
        val == [j \in flat |-> src[j \div atoms][j % atoms]]
        pos == [j \in flat |-> idx[j \div atoms][j % atoms] + offset(j \div atoms)]
    IN  [k \in DOMAIN mm |->
            RAdd(mm[k], RSum([j \in flat |-> IF pos[j] = k THEN val[j] ELSE RZero],
                             batch_size * atoms))]

InitProj ==
    /\ IdleCounter /\ IdleReturns /\ IdleTree /\ IdleMem /\ IdleExt
    /\ discount_gamma \in ProjGammas
    /\ use_distributional \in BOOLEAN
    /\ batch_rewards \in [Batch -> ProjRewards]
    /\ actual_n_list \in [Batch -> 1 .. MaxN]
    /\ IF use_distributional
       THEN /\ \E sup \in Supports : v_min = sup[1] /\ v_max = sup[2]
            /\ window_final = [s \in Batch |-> FALSE]
            /\ next_q_value \in [Batch -> {p \in [Atoms -> {Rat(k, 2) : k \in ProbUnits}] : RSum(p, atoms) = ROne}]
       ELSE /\ v_min = RInt(-1) /\ v_max = ROne
            /\ window_final \in [Batch -> BOOLEAN]
            /\ next_q_value \in [Batch -> NextQs]
    /\ q_target = <<>>
    /\ b = <<>>
    /\ l = <<>>
    /\ u = <<>>
    /\ m = <<>>
    /\ proj_pc = "start"

\* Tz, b = (Tz - v_min) / delta_z, l, u = b.floor(), b.ceil() and the two
\* in-place fixes of l and u (the second reads the l already fixed).
ProjBins ==
    /\ proj_pc = "start"
    /\ use_distributional
    /\ b' = [s \in Batch |-> [i \in Atoms |-> RDiv(RSub(Tz(s, i), v_min), delta_z)]]
    /\ l' = [s \in Batch |-> [i \in Atoms |-> NudgeLower(RFloor(b'[s][i]), RCeil(b'[s][i]))]]
    /\ u' = [s \in Batch |-> [i \in Atoms |-> NudgeUpper(l'[s][i], RCeil(b'[s][i]))]]
    /\ proj_pc' = "nudged"
    /\ UNCHANGED <<use_distributional, batch_rewards, actual_n_list, window_final,
                   next_q_value, q_target, m>>
    /\ UNCHANGED notProj

\* m = zeros(batch_size, atoms)
\* m_l = m_l + p(s_t+n, a*)(u - b);  m_u = m_u + p(s_t+n, a*)(b - l)
ProjDistribute ==
    /\ proj_pc = "nudged"
    /\ m' = IndexAdd(IndexAdd([k \in 0 .. batch_size * atoms - 1 |-> RZero],
                              l, [s \in Batch |-> [i \in Atoms |-> MassToLower(s, i)]]),
                     u, [s \in Batch |-> [i \in Atoms |-> MassToUpper(s, i)]])
    /\ proj_pc' = "done"
    /\ UNCHANGED <<use_distributional, batch_rewards, actual_n_list, window_final,
                   next_q_value, q_target, b, l, u>>
    /\ UNCHANGED notProj

\* if not self.use_distributional: rewards = rewards + next_q_value * discount
DqnTarget ==
    /\ proj_pc = "start"
    /\ ~use_distributional
    /\ q_target' = [s \in Batch |-> BootstrapTarget(s)]
    /\ proj_pc' = "target"
    /\ UNCHANGED <<use_distributional, batch_rewards, actual_n_list, window_final,
                   next_q_value, b, l, u, m>>
    /\ UNCHANGED notProj

NextProj == DqnTarget \/ ProjBins \/ ProjDistribute

SpecProj == InitProj /\ [][NextProj]_vars

\* Row s of m (m[s, :]).
Row(s) == [i \in Atoms |-> m[offset(s) + i]]

\* C3: whenever the next-state distribution of a sample sums to 1, the projected
\* target distribution of that sample sums to 1 over all atoms.
C3_ProjectionMassConserved ==
    proj_pc = "done" =>
        \A s \in Batch :
            RSum(next_q_value[s], atoms) = ROne => RSum(Row(s), atoms) = ROne

\* Reached: a finished projection in which some source atom was clamped, some
\* source atom fell strictly between two support atoms and some fell exactly on one.
C3_Witness ==
    /\ proj_pc = "done"
    /\ \E s \in Batch : \E i, j, k \in Atoms :
          /\ next_q_value[s][i].n > 0 /\ next_q_value[s][j].n > 0
          /\ b[s][i].d > 1
          /\ b[s][j].d = 1
          /\ Tz(s, k) = v_max
          /\ RLt(v_max, RAdd(batch_rewards[s], RMul(discount(s), support(k))))
    /\ \A s \in Batch : RSum(Row(s), atoms) = ROne

\* C13 (as claimed): in the non-distributional branch the target of a sample
\* is reward + gamma^actual_n * next_Q when its n-step window did not end at a
\* terminal transition, and exactly reward when it did.
C13_TerminalBootstrapMasked ==
    proj_pc = "target" =>
        \A s \in Batch :
            q_target[s] = (IF window_final[s]
                           THEN batch_rewards[s]
                           ELSE RAdd(batch_rewards[s],
                                     RMul(RPow(discount_gamma, actual_n_list[s]), next_q_value[s])))

\* C18: the discount of each sample is gamma raised to the actual_n of that
\* sample: it multiplies the bootstrap value in the non-distributional target
\* and the support in the distributional Tz, and with 0 < gamma < 1 two
\* samples of a batch with different actual_n get different discounts.
C18_DiscountUsesActualN ==
    /\ proj_pc = "target" =>
          \A s \in Batch :
              q_target[s] = RAdd(batch_rewards[s],
                                 RMul(RPow(discount_gamma, actual_n_list[s]), next_q_value[s]))
    /\ proj_pc \in {"nudged", "done"} =>
          \A s \in Batch : \A i \in Atoms :
              LET z == RAdd(batch_rewards[s],
                            RMul(RPow(discount_gamma, actual_n_list[s]), support(i)))
              IN  b[s][i] = RDiv(RSub(RMax(v_min, RMin(v_max, z)), v_min), delta_z)
    /\ proj_pc \in {"target", "nudged", "done"} =>
          \A s, t \in Batch :
              (RLt(RZero, discount_gamma) /\ RLt(discount_gamma, ROne)
                  /\ actual_n_list[s] # actual_n_list[t]) => discount(s) # discount(t)

\* Reached: a non-distributional target of a batch whose two samples bridged
\* one and two steps, with gamma = 1/2 and next value 1: targets r + 1/2 and r + 1/4.
C18_Witness ==
    /\ proj_pc = "target"
    /\ discount_gamma = Rat(1, 2)
    /\ \E s, t \in Batch :
          /\ actual_n_list[s] = 1 /\ actual_n_list[t] = MaxN /\ MaxN > 1
          /\ next_q_value[s] = ROne /\ next_q_value[t] = ROne
          /\ q_target[s] = RAdd(batch_rewards[s], Rat(1, 2))
          /\ RLt(q_target[t], RAdd(batch_rewards[t], Rat(1, 2)))

\* Mass that source atom i of sample s sends to bin k of its row.
MassInto(s, i, k) ==
    RAdd(IF l[s][i] = k THEN MassToLower(s, i) ELSE RZero,
         IF u[s][i] = k THEN MassToUpper(s, i) ELSE RZero)

\* C4: when Tz of a source atom falls exactly on support atom j (b = j is an
\* integer, j = 0 and j = atoms-1 included), the whole mass of the source atom
\* goes to bin j and nothing goes to any other bin; a sample whose whole mass
\* sits on such an atom ends with m = 1 at bin j.
C4_ExactAtomKeepsMass ==
    /\ proj_pc \in {"nudged", "done"} =>
          \A s \in Batch : \A i \in Atoms :
              b[s][i].d = 1 =>
                  \A k \in Atoms :
                      MassInto(s, i, k) = (IF k = b[s][i].n THEN next_q_value[s][i] ELSE RZero)
    /\ proj_pc = "done" =>
          \A s \in Batch : \A i \in Atoms :
              (b[s][i].d = 1 /\ next_q_value[s][i] = ROne) =>
                  \A k \in Atoms : m[offset(s) + k] = (IF k = b[s][i].n THEN ROne ELSE RZero)

\* Reached: one sample puts all its mass on a source atom that lands exactly on
\* bin 0, the other on one that lands exactly on bin atoms-1, and both rows of m
\* hold that mass in that bin.
C4_Witness ==
    /\ proj_pc = "done"
    /\ \E s, t \in Batch : \E i, j \in Atoms :
          /\ next_q_value[s][i] = ROne /\ b[s][i] = RZero
          /\ m[offset(s)] = ROne
          /\ next_q_value[t][j] = ROne /\ b[t][j] = RInt(atoms - 1)
          /\ m[offset(t) + atoms - 1] = ROne

(***************************************************************************)
(* Sum-tree priority index (specification, section 4.1)                    *)
(*                                                                         *)
(* A full binary tree over `capacity` leaves kept in an array of           *)
(* 2*capacity - 1 nodes: node 0 is the root, the children of node x are    *)
(* 2x+1 and 2x+2, and data slot d is held by leaf d + capacity - 1.        *)
(* Priorities are integers; find(v) compares v with sums of priorities     *)
(* only, so an integer v stands for every real in [v, v+1).                *)
(***************************************************************************)

\* Capacity of the tree and largest priority explored.
capacity == 3
MaxPriority == 2

NumNodes == 2 * capacity - 1
Nodes == 0 .. NumNodes - 1
FirstLeaf == capacity - 1
LeafNodes == FirstLeaf .. NumNodes - 1
IsLeaf(x) == x >= FirstLeaf
Left(x) == 2 * x + 1
Right(x) == 2 * x + 2
Parent(x) == (x - 1) \div 2

NoData == [kind |-> "empty"]

\* The tree after construction: every priority 0, no data, write pointer 0.
NewTree ==
    [tree |-> [x \in Nodes |-> 0],
     data |-> [d \in 0 .. capacity - 1 |-> NoData],
     write |-> 0,
     n_entries |-> 0]

\* The change is added to the parent only, not to the ancestors above it.
PropagateParentOnly(tr, x, change) ==
    IF x = 0 THEN tr ELSE [tr EXCEPT ![Parent(x)] = @ + change]

RECURSIVE Propagate(_, _, _)
\* Adds the change of a node to all of its ancestors.
Propagate(tr, x, change) ==
    IF x = 0 THEN tr
    ELSE Propagate([tr EXCEPT ![Parent(x)] = @ + change], Parent(x), change)

\* update(index, priority): sets the leaf priority and propagates the delta.
TreeUpdate(t, x, priority) ==
    [t EXCEPT !.tree = Propagate([t.tree EXCEPT ![x] = priority], x, priority - t.tree[x])]

\* add(priority, data): overwrites the slot under the circular write pointer.
TreeAdd(t, priority, item) ==
    LET x == t.write + FirstLeaf
        t1 == [t EXCEPT !.data[t.write] = item]
        t2 == TreeUpdate(t1, x, priority)
    IN  [t2 EXCEPT !.write = (t.write + 1) % capacity,
                   !.n_entries = IF t.n_entries < capacity THEN t.n_entries + 1 ELSE capacity]

\* total(): the root value.
TreeTotal(t) == t.tree[0]

RECURSIVE RetrieveLe(_, _, _)
\* The descent goes left also when v equals the left value.
RetrieveLe(t, x, v) ==
    IF IsLeaf(x) THEN x
    ELSE IF v <= t.tree[Left(x)] THEN RetrieveLe(t, Left(x), v)
         ELSE RetrieveLe(t, Right(x), v - t.tree[Left(x)])

RECURSIVE Retrieve(_, _, _)
\* Descent of find: left child if v < left.value, else subtract and go right.
Retrieve(t, x, v) ==
    IF IsLeaf(x) THEN x
    ELSE IF v < t.tree[Left(x)] THEN Retrieve(t, Left(x), v)
         ELSE Retrieve(t, Right(x), v - t.tree[Left(x)])

\* find(v): the leaf index and its stored priority.
TreeFind(t, v) ==
    LET x == Retrieve(t, 0, v)
    IN  [v |-> v, idx |-> x, priority |-> t.tree[x]]

\* Leaves that hold data.
Populated(t) == {x \in LeafNodes : t.data[x - FirstLeaf] # NoData}

InitTree ==
    /\ IdleConfig /\ IdleCounter /\ IdleReturns /\ IdleProj /\ IdleMem /\ IdleExt
    /\ sumtree = NewTree
    /\ tree_found = <<>>

\* add(priority, data) with a positive priority.
tree_add ==
    \E priority \in 1 .. MaxPriority :
        /\ sumtree' = TreeAdd(sumtree, priority, [kind |-> "item"])
        /\ tree_found' = <<>>
        /\ UNCHANGED notTree

\* update(index, priority) on the index of a stored item (a handle of an
\* earlier sample); the new priority may be 0.
tree_update ==
    \E x \in Populated(sumtree), priority \in 0 .. MaxPriority :
        /\ sumtree' = TreeUpdate(sumtree, x, priority)
        /\ tree_found' = <<>>
        /\ UNCHANGED notTree

\* find(v) for v in [0, total()).
tree_find ==
    \E v \in 0 .. TreeTotal(sumtree) - 1 :
        /\ tree_found' = TreeFind(sumtree, v)
        /\ UNCHANGED sumtree
        /\ UNCHANGED notTree

NextTree == tree_add \/ tree_update \/ tree_find

SpecTree == InitTree /\ [][NextTree]_vars

RECURSIVE SumNodes(_, _)
\* Sum of the values of the nodes in set S.
SumNodes(tr, S) ==
    IF S = {} THEN 0
    ELSE LET x == CHOOSE y \in S : TRUE IN tr[x] + SumNodes(tr, S \ {x})

\* C1: after every add and update the root equals the sum of all leaf
\* priorities and every internal node equals the sum of its two children.
C1_SumTreeInvariant ==
    /\ TreeTotal(sumtree) = SumNodes(sumtree.tree, LeafNodes)
    /\ \A x \in Nodes \ LeafNodes :
          sumtree.tree[x] = sumtree.tree[Left(x)] + sumtree.tree[Right(x)]

\* Reached: the write pointer has wrapped (an add overwrote the oldest slot),
\* a stored priority was updated to 0 and the leaves hold different priorities.
C1_Witness ==
    /\ sumtree.n_entries = capacity
    /\ sumtree.write = 1
    /\ \E x, y, z \in LeafNodes :
          /\ sumtree.tree[x] = 0
          /\ sumtree.tree[y] = 1
          /\ sumtree.tree[z] = MaxPriority
    /\ TreeTotal(sumtree) = SumNodes(sumtree.tree, LeafNodes)

RECURSIVE LeavesUnder(_)
\* The leaves below node x, left to right.
LeavesUnder(x) == IF IsLeaf(x) THEN <<x>> ELSE LeavesUnder(Left(x)) \o LeavesUnder(Right(x))

LeafOrder == LeavesUnder(0)

\* Sum of the priorities of the leaves before position k of the left-to-right order.
RECURSIVE CumBefore(_, _)
CumBefore(tr, k) == IF k <= 1 THEN 0 ELSE CumBefore(tr, k - 1) + tr[LeafOrder[k - 1]]

\* C10: while fewer than `capacity` items have been inserted and every
\* populated leaf has a positive priority, find(v) for v in [0, total())
\* returns a populated leaf, and it is the leaf whose cumulative-priority
\* interval [sum of the priorities of the leaves to its left, that sum + its
\* own priority) contains v.
C10_FindReturnsPopulatedLeaf ==
    (/\ tree_found # <<>>
     /\ sumtree.n_entries < capacity
     /\ \A x \in Populated(sumtree) : sumtree.tree[x] > 0)
      => /\ tree_found.idx \in Populated(sumtree)
         /\ tree_found.priority = sumtree.tree[tree_found.idx]
         /\ \E k \in 1 .. Len(LeafOrder) :
               /\ LeafOrder[k] = tree_found.idx
               /\ CumBefore(sumtree.tree, k) <= tree_found.v
               /\ tree_found.v < CumBefore(sumtree.tree, k) + sumtree.tree[tree_found.idx]

\* Reached: a partly filled tree with two populated leaves of different
\* positive priorities, and a find whose v lies beyond the first interval.
C10_Witness ==
    /\ tree_found # <<>>
    /\ sumtree.n_entries = 2
    /\ \A x \in Populated(sumtree) : sumtree.tree[x] > 0
    /\ \E x, y \in Populated(sumtree) : sumtree.tree[x] # sumtree.tree[y]
    /\ tree_found.v >= 1
    /\ tree_found.v = TreeTotal(sumtree) - 1
    /\ tree_found.idx \in Populated(sumtree)

(***************************************************************************)
(* Off-policy replay memory (specification, sections 3 and 4.2)            *)
(*                                                                         *)
(* Two sum-trees of the same capacity: the all-store receives every        *)
(* transition, the prior-only store the transitions pushed with is_prior.  *)
(* As in src/train.py (lines 433-461) the transitions of one game are      *)
(* pushed in step order, all with the is_prior flag of the game, and the   *)
(* last one carries is_final.  The n-step walk of get_batch goes forward   *)
(* slot by slot in the store it sampled from and never past the newest     *)
(* entry of that store.                                                    *)
(***************************************************************************)

\* Priority given to a transition when it is pushed.
DefaultPriority == 1

\* Pushes explored: enough to wrap the write pointer.
MaxPush == capacity + 1

\* get_batch is called with self.replay_batch_size (src/agent.py 1130-1132).
replay_batch_size == batch_size

PriorityFractions == {Rat(3, 10), Rat(1, 2)}

\* Transition of the game `traj` at step `pos`; id is its push number.  The
\* state texts are <<traj, pos>> and <<traj, pos + 1>>, the reward pos + 1.
Transition(id, traj, pos, final, prior) ==
    [kind |-> "item", id |-> id, traj |-> traj, pos |-> pos,
     state |-> <<traj, pos>>, next_state |-> <<traj, pos + 1>>,
     reward |-> RInt(pos + 1), is_final |-> final, is_prior |-> prior]

\* The write pointer stays on the last slot instead of wrapping to slot 0.
TreeAddNoWrap(t, priority, item) ==
    LET x == t.write + FirstLeaf
        t1 == [t EXCEPT !.data[t.write] = item]
        t2 == TreeUpdate(t1, x, priority)
    IN  [t2 EXCEPT !.write = IF t.write + 1 < capacity THEN t.write + 1 ELSE t.write,
                   !.n_entries = IF t.n_entries < capacity THEN t.n_entries + 1 ELSE capacity]

\* What a store does with a pushed transition.
StoreAdd(t, priority, item) == TreeAdd(t, priority, item)

\* push(is_prior, ...): into the prior-only store if flagged, always into the all-store.
MemPush(mem, item) ==
    [all |-> StoreAdd(mem.all, DefaultPriority, item),
     prior |-> IF item.is_prior THEN StoreAdd(mem.prior, DefaultPriority, item) ELSE mem.prior]

\* len(): current occupancy.
MemLen(mem) == mem.all.n_entries

\* The walk stops only at the horizon or at the newest entry.
WalkStopsIgnoringFinal(store, cur, taken, n) ==
    \/ taken = n
    \/ (cur + 1) % capacity = store.write

\* End of the n-step walk after reading slot cur as step number `taken`:
\* an episode boundary, the horizon, or the newest entry of the store.
WalkStops(store, cur, taken, n) ==
    \/ store.data[cur].is_final
    \/ taken = n
    \/ (cur + 1) % capacity = store.write

RECURSIVE NStep(_, _, _, _, _, _)
\* Walk forward from `slot`: discounted reward sum, steps taken, state reached.
NStep(store, slot, j, n, acc, read) ==
    LET cur == (slot + j) % capacity
        t == store.data[cur]
        acc1 == RAdd(acc, RMul(RPow(discount_gamma, j), t.reward))
        read1 == read \cup {t.id}
    IN  IF WalkStops(store, cur, j + 1, n)
        THEN [actual_n |-> j + 1, reward |-> acc1, next_state |-> t.next_state,
              read |-> read1]
        ELSE NStep(store, slot, j + 1, n, acc1, read1)

\* One sample: find(v) in the tree of the store, then the n-step walk.
Sample(mem, which, v, n) ==
    LET store == IF which = "prior" THEN mem.prior ELSE mem.all
        f == TreeFind(store, v)
        slot == f.idx - FirstLeaf
        w == NStep(store, slot, 0, n, RZero, {})
    IN  [store |-> which, idx |-> f.idx, start |-> store.data[slot].id,
         state |-> store.data[slot].state,
         actual_n |-> w.actual_n, reward |-> w.reward,
         next_state |-> w.next_state, read |-> w.read]

\* The quota is rounded up.
PriorQuotaCeil(pf, size) == RCeil(RMul(pf, RInt(size)))

\* priority_fraction * batch_size samples are reserved for the prior-only store.
PriorQuota(pf, size) == RFloor(RMul(pf, RInt(size)))

\* Samples drawn from the prior-only store: none when it is empty.
FromPrior(mem, size) ==
    IF mem.prior.n_entries = 0 THEN 0 ELSE PriorQuota(priority_fraction, size)

\* The store the k-th sample of a batch of `size` samples is drawn from.
WhichStore(mem, size, k) == IF k <= FromPrior(mem, size) THEN "prior" ELSE "all"

\* The values v a batch can be drawn at: one per sample, each in [0, total())
\* of the tree of its store.  Every stored priority is DefaultPriority, so the
\* multiples of it reach every leaf find can return.
Draws(mem, size) ==
    {vs \in [1 .. size -> {d * DefaultPriority : d \in 0 .. capacity - 1}] :
        \A k \in 1 .. size :
            vs[k] < TreeTotal(IF WhichStore(mem, size, k) = "prior" THEN mem.prior ELSE mem.all)}

\* get_batch(batch_size, multi_step) drawn at the values vs: None with fewer
\* than batch_size items stored, else the first FromPrior samples from the
\* prior-only store and the others from the all-store.
GetBatch(mem, size, n, vs) ==
    IF MemLen(mem) < size
    THEN [status |-> "None", samples |-> <<>>]
    ELSE [status |-> "batch",
          samples |-> [k \in 1 .. size |-> Sample(mem, WhichStore(mem, size, k), vs[k], n)]]

\* The agent after load_config in DQN mode: an empty command-generation memory.
NewMemory ==
    /\ discount_gamma = Rat(1, 2)
    /\ v_min = RZero
    /\ v_max = RZero
    /\ priority_fraction \in PriorityFractions
    /\ multi_step \in 1 .. MaxN
    /\ replay = [all |-> NewTree, prior |-> NewTree]
    /\ mem_cur = [traj |-> 1, pos |-> 0, is_prior |-> FALSE]
    /\ mem_pushed = <<>>
    /\ mem_batch = NoBatch

InitMem ==
    /\ IdleCounter /\ IdleReturns /\ IdleProj /\ IdleTree /\ IdleExt
    /\ NewMemory

\* push of the next transition of the current game; a game starts with the
\* choice of its is_prior flag and ends with the transition pushed with is_final.
push ==
    \E final \in BOOLEAN, prior \in BOOLEAN :
        LET isp == IF mem_cur.pos = 0 THEN prior ELSE mem_cur.is_prior
            item == Transition(Len(mem_pushed) + 1, mem_cur.traj, mem_cur.pos, final, isp)
        IN  /\ Len(mem_pushed) < MaxPush
            /\ mem_cur.pos > 0 => prior = mem_cur.is_prior
            /\ replay' = MemPush(replay, item)
            /\ mem_pushed' = Append(mem_pushed, item)
            /\ mem_cur' = IF final
                          THEN [traj |-> mem_cur.traj + 1, pos |-> 0, is_prior |-> FALSE]
                          ELSE [traj |-> mem_cur.traj, pos |-> mem_cur.pos + 1, is_prior |-> isp]
            /\ mem_batch' = NoBatch
            /\ UNCHANGED <<priority_fraction, multi_step>>
            /\ UNCHANGED notMem

\* get_batch(replay_batch_size, multi_step) with fewer than batch_size items stored.
get_batch_none ==
    /\ MemLen(replay) < replay_batch_size
    /\ mem_batch' = GetBatch(replay, replay_batch_size, multi_step, <<>>)
    /\ UNCHANGED <<priority_fraction, multi_step, replay, mem_cur, mem_pushed>>
    /\ UNCHANGED notMem

\* get_batch(replay_batch_size, multi_step) with enough items stored.
get_batch ==
    /\ MemLen(replay) >= replay_batch_size
    /\ \E vs \in Draws(replay, replay_batch_size) :
           mem_batch' = GetBatch(replay, replay_batch_size, multi_step, vs)
    /\ UNCHANGED <<priority_fraction, multi_step, replay, mem_cur, mem_pushed>>
    /\ UNCHANGED notMem

NextMem == push \/ get_batch_none \/ get_batch

SpecMem == InitMem /\ [][NextMem]_vars

HasBatch == mem_batch.status = "batch"
Samples == mem_batch.samples

\* Push numbers of the stored transitions of game tj.
IdsOf(tj, lo, hi) == {k \in 1 .. Len(mem_pushed) :
                        mem_pushed[k].traj = tj /\ mem_pushed[k].pos \in lo .. hi}

RECURSIVE GameReward(_, _)
\* sum over j in 0..k of gamma^j * (reward of step j of a game) = gamma^j * (j + 1)
GameReward(j, k) ==
    IF j > k THEN RZero
    ELSE RAdd(RMul(RPow(discount_gamma, j), RInt(j + 1)), GameReward(j + 1, k))

\* C7: a sample that starts at step 0 of a game whose terminal transition is
\* its step k < n has actual_n = k + 1, its next state is the next state of
\* the terminal transition, its reward is the discounted sum of the rewards of
\* steps 0..k, and only transitions of steps 0..k of that game were read.
C7_NStepStopsAtTerminal ==
    HasBatch =>
        \A i \in 1 .. Len(Samples) :
            LET smp == Samples[i]
                t0 == mem_pushed[smp.start]
            IN  \A e \in 1 .. Len(mem_pushed) :
                    (/\ t0.pos = 0
                     /\ mem_pushed[e].traj = t0.traj
                     /\ mem_pushed[e].is_final
                     /\ mem_pushed[e].pos < multi_step)
                      => /\ smp.actual_n = mem_pushed[e].pos + 1
                         /\ smp.next_state = mem_pushed[e].next_state
                         /\ smp.read = IdsOf(t0.traj, 0, mem_pushed[e].pos)
                         /\ smp.reward = GameReward(0, mem_pushed[e].pos)

\* Reached: a sample starting at step 0 of a game that ends at step k = 1
\* (k >= 1, k < n) while a later game is stored right behind it.
C7_Witness ==
    /\ HasBatch
    /\ \E i \in 1 .. Len(Samples) : \E e \in 1 .. Len(mem_pushed) :
          LET smp == Samples[i]
              t0 == mem_pushed[smp.start]
          IN  /\ t0.pos = 0
              /\ mem_pushed[e].traj = t0.traj
              /\ mem_pushed[e].is_final
              /\ mem_pushed[e].pos = 1
              /\ multi_step > 1
              /\ e < Len(mem_pushed)
              /\ smp.actual_n = 2

\* C8: len() never exceeds the capacity; the k-th push lands in slot
\* (k-1) mod capacity, so the push after `capacity` pushes overwrites slot 0,
\* the oldest entry, and the store holds exactly the last min(k, capacity)
\* pushed transitions, unchanged; the same holds for the prior-only store
\* with respect to the pushes flagged is_prior.
C8_CapacityEviction ==
    LET k == Len(mem_pushed)
        priors == SelectSeq(mem_pushed, LAMBDA t : t.is_prior)
        kp == Len(priors)
    IN  /\ MemLen(replay) <= capacity
        /\ MemLen(replay) = (IF k < capacity THEN k ELSE capacity)
        /\ \A j \in 1 .. k :
              j > k - capacity => replay.all.data[(j - 1) % capacity] = mem_pushed[j]
        /\ \A d \in 0 .. capacity - 1 : d >= k => replay.all.data[d] = NoData
        /\ replay.prior.n_entries = (IF kp < capacity THEN kp ELSE capacity)
        /\ \A j \in 1 .. kp :
              j > kp - capacity => replay.prior.data[(j - 1) % capacity] = priors[j]

\* Reached: capacity + 1 pushes; slot 0 holds the last one, the other slots
\* still hold pushes 2 .. capacity.
C8_Witness ==
    /\ Len(mem_pushed) = capacity + 1
    /\ replay.all.data[0].id = capacity + 1
    /\ \A d \in 1 .. capacity - 1 : replay.all.data[d].id = d + 1
    /\ MemLen(replay) = capacity

\* Number of samples of the batch drawn from store w.
CountFrom(w) == Cardinality({i \in 1 .. Len(Samples) : Samples[i].store = w})

\* C9: a batch has exactly batch_size samples; priority_fraction * batch_size
\* of them (rounded down; 3 of 10 for 0.3) come from the prior-only store and
\* hold transitions pushed with is_prior, the others come from the all-store;
\* when the prior-only store is empty all of them come from the all-store.
C9_PriorityFractionPartition ==
    /\ PriorQuota(Rat(3, 10), 10) = 3
    /\ HasBatch =>
          /\ Len(Samples) = replay_batch_size
          /\ CountFrom("prior") + CountFrom("all") = replay_batch_size
          /\ replay.prior.n_entries > 0 =>
                /\ RLe(RInt(CountFrom("prior")), RMul(priority_fraction, RInt(replay_batch_size)))
                /\ RLt(RMul(priority_fraction, RInt(replay_batch_size)), RInt(CountFrom("prior") + 1))
          /\ replay.prior.n_entries = 0 => CountFrom("all") = replay_batch_size
          /\ \A i \in 1 .. Len(Samples) :
                /\ Samples[i].store = "prior" => mem_pushed[Samples[i].start].is_prior
                /\ Samples[i].store = "prior" => replay.prior.data[Samples[i].idx - FirstLeaf].id = Samples[i].start
                /\ Samples[i].store = "all" => replay.all.data[Samples[i].idx - FirstLeaf].id = Samples[i].start

\* Reached: a batch with one sample from the prior-only store and one from
\* the all-store whose transition was not pushed with is_prior.
C9_Witness ==
    /\ HasBatch
    /\ priority_fraction = Rat(1, 2)
    /\ CountFrom("prior") = 1
    /\ \E i \in 1 .. Len(Samples) :
          Samples[i].store = "all" /\ ~mem_pushed[Samples[i].start].is_prior

(***************************************************************************)
(* update_interaction and update_qa in DQN mode (a2c disabled)             *)
(*                                                                         *)
(* The QA memory (qa_memory.PrioritizedReplayMemory, specification         *)
(* section 4.4) is a sum-tree store of QA transitions; len() and sample()  *)
(* read it, push() adds to it.                                             *)
(***************************************************************************)

\* QA transition number id.
QaTransition(id) == [kind |-> "item", id |-> id]

\* An optimizer step is taken whatever the loss is.
UpdateAlwaysSteps(loss) == [ret |-> loss, optimizer_step |-> TRUE]

\* if loss is None: return None; else zero_grad, backward, clip, optimizer.step()
UpdateStep(loss) == [ret |-> loss, optimizer_step |-> loss # "None"]

\* get_dqn_loss: None with fewer than replay_batch_size transitions stored or
\* when get_batch returns None, a loss tensor otherwise.
GetDqnLoss(len, data) ==
    IF len < replay_batch_size THEN "None"
    ELSE IF data.status = "None" THEN "None"
    ELSE "loss"

\* get_qa_loss: None with fewer than replay_batch_size QA transitions stored.
GetQaLoss(len) == IF len < replay_batch_size THEN "None" ELSE "loss"

notUpdate == <<configVars, counterVars, returnVars, projVars, treeVars, a2cVars, nextqVars,
               episodeVars, finishVars, trainVars, limitVars>>

InitUpdate ==
    /\ IdleCounter /\ IdleReturns /\ IdleProj /\ IdleTree
    /\ IdleA2C /\ IdleNextQ /\ IdleEpisode /\ IdleFinish /\ IdleTrain
    /\ IdleLimit
    /\ NewMemory
    /\ qa_replay = NewTree
    /\ update_call = NoUpdate

\* agent.qa_replay_memory.push(False, qa_reward, observation, question, answer)
push_qa ==
    /\ qa_replay.n_entries < capacity
    /\ qa_replay.n_entries <= replay_batch_size
    /\ qa_replay' = StoreAdd(qa_replay, DefaultPriority, QaTransition(qa_replay.n_entries + 1))
    /\ UNCHANGED update_call
    /\ UNCHANGED memVars
    /\ UNCHANGED notUpdate

\* Agent.update_interaction with a2c disabled: get_dqn_loss, then the
\* optimizer step unless the loss is None.
update_interaction ==
    /\ \E vs \in (IF MemLen(replay) < replay_batch_size
                  THEN {<<>>} ELSE Draws(replay, replay_batch_size)) :
          LET data == IF MemLen(replay) < replay_batch_size
                      THEN NoBatch
                      ELSE GetBatch(replay, replay_batch_size, multi_step, vs)
              r == UpdateStep(GetDqnLoss(MemLen(replay), data))
          IN  update_call' = [fn |-> "update_interaction", ret |-> r.ret,
                              optimizer_step |-> r.optimizer_step,
                              len |-> MemLen(replay), data |-> data.status]
    /\ UNCHANGED qa_replay
    /\ UNCHANGED memVars
    /\ UNCHANGED notUpdate

\* Agent.update_qa: get_qa_loss, then the optimizer step unless the loss is None.
update_qa ==
    /\ LET r == UpdateStep(GetQaLoss(qa_replay.n_entries))
       IN  update_call' = [fn |-> "update_qa", ret |-> r.ret,
                           optimizer_step |-> r.optimizer_step,
                           len |-> qa_replay.n_entries,
                           data |-> IF r.ret = "None" THEN "nocall" ELSE "batch"]
    /\ UNCHANGED qa_replay
    /\ UNCHANGED memVars
    /\ UNCHANGED notUpdate

\* Pushes are followed until the memory holds one transition more than a batch.
NextUpdate ==
    \/ (MemLen(replay) <= replay_batch_size /\ push)
    \/ push_qa
    \/ update_interaction
    \/ update_qa

SpecUpdate == InitUpdate /\ [][NextUpdate]_vars

\* C11: an update call made with fewer than replay_batch_size transitions in
\* its memory (or whose get_batch returned None) returns None and takes no
\* optimizer step, for update_interaction on the command-generation memory
\* and for update_qa on the QA memory; an update call (a step that changes
\* the record of the last update call) never changes either memory, and with
\* enough data it returns a loss.
C11_InsufficientDataReturnsNone ==
    /\ [](update_call.fn # "none" =>
            /\ (update_call.len < replay_batch_size) =>
                  (update_call.ret = "None" /\ ~update_call.optimizer_step)
            /\ update_call.data = "None" =>
                  (update_call.ret = "None" /\ ~update_call.optimizer_step)
            /\ (update_call.len >= replay_batch_size) =>
                  (update_call.ret = "loss" /\ update_call.optimizer_step))
    /\ [][update_call' # update_call => UNCHANGED <<replay, qa_replay>>]_vars

\* Reached: update_interaction returned None on a command-generation memory
\* that holds one transition while the QA memory already holds a full batch.
C11_Witness ==
    /\ update_call.fn = "update_interaction"
    /\ update_call.ret = "None"
    /\ MemLen(replay) = 1
    /\ MemLen(replay) < replay_batch_size
    /\ qa_replay.n_entries >= replay_batch_size
    /\ ~update_call.optimizer_step

(***************************************************************************)
(* On-policy episode storage and the actor-critic update (a2c enabled)     *)
(*                                                                         *)
(* SingleEpisodeStorage (command_generation_memory, specification section  *)
(* 4.3) is an ordered list: push appends, get_batch returns the whole list *)
(* or None when it is empty, clear empties it.                             *)
(*   SpecStorage   push and update_interaction called in any order         *)
(*   SpecA2C       the episode loop of train(): the update at the top of   *)
(*                 an episode, the pushes at its end                       *)
(***************************************************************************)

\* Largest self.max_nb_steps_per_episode, self.max_episode; transitions pushed in SpecStorage.
MaxSteps == 3
max_episode == 4
MaxStored == 4

\* learn_start_from_this_episode: at once, after one batch, after two batches.
LearnStarts == {0, batch_size, 2 * batch_size}

\* Transition of game `game` of the episode batch starting at episode_no `ep`.
StoredTransition(id, ep, game, step, final) ==
    [id |-> id, episode |-> ep, game |-> game, step |-> step, is_final |-> final]

\* push(...): appends the transition.
StoragePush(store, item) == Append(store, item)

\* get_batch(): the result (None on an empty store, else the whole stored
\* sequence) and the store it leaves behind.
StorageGetBatch(store) ==
    [result |-> IF Len(store) = 0
                THEN [status |-> "None", items |-> <<>>]
                ELSE [status |-> "batch", items |-> store],
     store |-> store]

\* clear(): empties the store.
StorageClear(store) == <<>>

\* The loss is computed even when get_batch returned None.
GetActorCriticLossNoCheck(data) == "loss"

\* data = get_batch(); if data is None: return None
GetActorCriticLoss(data) == IF data.status = "None" THEN "None" ELSE "loss"

\* clear() is placed behind the early return on a None loss.
ClearUnlessNone(store, loss) ==
    IF loss = "None"
    THEN [store |-> store, clears |-> 0]
    ELSE [store |-> StorageClear(store), clears |-> 1]

\* interaction_loss = self.get_actor_critic_loss()
\* self.command_generation_replay_memory.clear()
ClearAfterLoss(store, loss) == [store |-> StorageClear(store), clears |-> 1]

Ids(items) == {items[k].id : k \in 1 .. Len(items)}

\* Agent.update_interaction with a2c enabled, on the storage variables.
A2CUpdateInteraction ==
    LET got == StorageGetBatch(storage)
        data == got.result
        loss == GetActorCriticLoss(data)
        c == ClearAfterLoss(got.store, loss)
        r == UpdateStep(loss)
    IN  /\ storage' = c.store
        /\ a2c_fresh' = IF c.clears > 0 THEN <<>> ELSE a2c_fresh
        /\ a2c_update' = [called |-> TRUE, fresh |-> a2c_fresh, before |-> storage,
                          data |-> data, kept |-> got.store, ret |-> r.ret,
                          clears |-> c.clears, optimizer_step |-> r.optimizer_step]
        /\ a2c_used' = a2c_used \cup (IF loss = "None" THEN {} ELSE Ids(data.items))
        /\ a2c_reused' = (a2c_reused \/ (loss # "None" /\ Ids(data.items) \cap a2c_used # {}))

notA2C == <<configVars, counterVars, returnVars, projVars, treeVars, memVars, updateVars,
            nextqVars, episodeVars, finishVars, trainVars, limitVars>>

InitStorage ==
    /\ IdleConfig /\ IdleCounter /\ IdleReturns /\ IdleProj /\ IdleTree /\ IdleMem
    /\ IdleUpdate /\ IdleNextQ /\ IdleEpisode /\ IdleFinish /\ IdleTrain
    /\ IdleLimit
    /\ learn_start_from_this_episode = 0
    /\ episode_no = 0
    /\ a2c_pc = "api"
    /\ storage = <<>>
    /\ a2c_pushed = 0
    /\ a2c_fresh = <<>>
    /\ a2c_update = NoA2CUpdate
    /\ a2c_used = {}
    /\ a2c_reused = FALSE

\* command_generation_replay_memory.push(..., is_final) of one transition.
storage_push ==
    \E game \in Batch, final \in BOOLEAN :
        LET item == StoredTransition(a2c_pushed + 1, episode_no, game, 0, final)
        IN  /\ a2c_pushed < MaxStored
            /\ storage' = StoragePush(storage, item)
            /\ a2c_fresh' = Append(a2c_fresh, item)
            /\ a2c_pushed' = a2c_pushed + 1
            /\ UNCHANGED <<learn_start_from_this_episode, episode_no, a2c_pc,
                           a2c_update, a2c_used, a2c_reused>>
            /\ UNCHANGED notA2C

\* Agent.update_interaction() with a2c enabled.
update_interaction_a2c ==
    /\ A2CUpdateInteraction
    /\ UNCHANGED <<learn_start_from_this_episode, episode_no, a2c_pc, a2c_pushed>>
    /\ UNCHANGED notA2C

NextStorage == storage_push \/ update_interaction_a2c

SpecStorage == InitStorage /\ [][NextStorage]_vars

\* C12: every update_interaction call in actor-critic mode calls clear()
\* exactly once and leaves the episode storage empty when it returns, with a
\* loss or with None; no stored transition is part of two update batches.
C12_OnPolicyDataUsedOnce ==
    /\ [](/\ a2c_update.called => a2c_update.clears = 1
          /\ ~a2c_reused)
    /\ [][A2CUpdateInteraction => storage' = <<>>]_vars

\* Reached: a second update with a loss has just returned; its batch and the
\* batch of the earlier update are disjoint and the storage is empty.
C12_Witness ==
    /\ a2c_update.called
    /\ a2c_update.ret = "loss"
    /\ a2c_update.clears = 1
    /\ storage = <<>>
    /\ Ids(a2c_update.data.items) # {}
    /\ a2c_used \ Ids(a2c_update.data.items) # {}

\* C19: get_batch() on a storage holding the transitions t1..tk pushed since
\* the last clear returns exactly t1..tk in push order, each once, and leaves
\* the storage as it was; on an empty storage it returns None and
\* get_actor_critic_loss returns None.
C19_GetBatchReturnsAllInOrder ==
    a2c_update.called =>
        /\ a2c_update.kept = a2c_update.before
        /\ a2c_update.before = a2c_update.fresh
        /\ Len(a2c_update.fresh) >= 1 =>
              /\ a2c_update.data.status = "batch"
              /\ a2c_update.data.items = a2c_update.fresh
              /\ \A j, k \in 1 .. Len(a2c_update.data.items) :
                    j < k => a2c_update.data.items[j].id < a2c_update.data.items[k].id
              /\ a2c_update.ret = "loss"
        /\ Len(a2c_update.fresh) = 0 =>
              /\ a2c_update.data.status = "None"
              /\ a2c_update.ret = "None"
              /\ ~a2c_update.optimizer_step

\* Reached: get_batch returned three transitions pushed after an earlier
\* clear, in push order.
C19_Witness ==
    /\ a2c_update.called
    /\ Len(a2c_update.data.items) = 3
    /\ a2c_update.data.items[1].id = 2
    /\ a2c_update.data.items[3].id = 4
    /\ a2c_update.data.items = a2c_update.fresh

\* Number of transitions pushed for each game of one episode batch: a game's
\* running mask is 1 at step 0 unless step 0 is the last step allowed, so at
\* least two transitions are pushed when more than one step is allowed.
EpisodeLengths ==
    [Batch -> IF max_nb_steps_per_episode = 1 THEN {1} ELSE 2 .. max_nb_steps_per_episode]

RECURSIVE GamePushes(_, _, _, _, _)
\* The transitions of steps `step` .. len-1 of one game, the last one final;
\* `id` is the push number of the first of them.
GamePushes(id, ep, game, step, len) ==
    IF step = len THEN <<>>
    ELSE <<StoredTransition(id, ep, game, step, step = len - 1)>>
         \o GamePushes(id + 1, ep, game, step + 1, len)

RECURSIVE EpisodePushes(_, _, _, _)
\* for b in range(batch_size): for i in range(len(transition_cache)): push(...)
EpisodePushes(id, ep, game, lens) ==
    IF game \notin Batch THEN <<>>
    ELSE GamePushes(id, ep, game, 0, lens[game])
         \o EpisodePushes(id + lens[game], ep, game + 1, lens)

InitA2C ==
    /\ IdleConfig /\ IdleCounter /\ IdleReturns /\ IdleProj /\ IdleTree /\ IdleMem
    /\ IdleUpdate /\ IdleNextQ /\ IdleEpisode /\ IdleFinish /\ IdleTrain
    /\ max_nb_steps_per_episode = MaxSteps
    /\ learn_start_from_this_episode \in LearnStarts
    /\ episode_no = 0
    /\ a2c_pc = "update"
    /\ storage = <<>>
    /\ a2c_pushed = 0
    /\ a2c_fresh = <<>>
    /\ a2c_update = NoA2CUpdate
    /\ a2c_used = {}
    /\ a2c_reused = FALSE

\* Top of an episode of train(): the actor-critic update, made only when
\* episode_no > learn_start_from_this_episode.
train_a2c_update ==
    /\ a2c_pc = "update"
    /\ episode_no <= max_episode
    /\ IF episode_no > learn_start_from_this_episode
       THEN A2CUpdateInteraction
       ELSE /\ a2c_update' = NoA2CUpdate
            /\ UNCHANGED <<storage, a2c_fresh, a2c_used, a2c_reused>>
    /\ a2c_pc' = "play"
    /\ UNCHANGED <<learn_start_from_this_episode, episode_no, a2c_pushed>>
    /\ UNCHANGED notA2C

\* End of an episode of train(): the transitions of every game are pushed,
\* then episode_no += batch_size.
train_a2c_push ==
    /\ a2c_pc = "play"
    /\ \E lens \in EpisodeLengths :
          LET items == EpisodePushes(a2c_pushed + 1, episode_no, 0, lens)
          IN  /\ storage' = storage \o items
              /\ a2c_fresh' = a2c_fresh \o items
              /\ a2c_pushed' = a2c_pushed + Len(items)
    /\ episode_no' = episode_no + batch_size
    /\ a2c_pc' = "update"
    /\ UNCHANGED <<learn_start_from_this_episode, a2c_update, a2c_used, a2c_reused>>
    /\ UNCHANGED notA2C

NextA2C == train_a2c_update \/ train_a2c_push

SpecA2C == InitA2C /\ [][NextA2C]_vars

\* C16 (as claimed): for every learn_start_from_this_episode the episode
\* storage holds transitions of one batch of parallel episodes only, so at
\* most batch_size * max_nb_steps_per_episode of them.
C16_StorageHoldsOneEpisodeBatch ==
    /\ Len(storage) <= batch_size * max_nb_steps_per_episode
    /\ \A j, k \in 1 .. Len(storage) : storage[j].episode = storage[k].episode

(***************************************************************************)
(* Next-state value of get_dqn_loss: action selection and bootstrap value  *)
(* of one sample over the three command slots (non-distributional scores). *)
(***************************************************************************)

\* The command slots (verb, modifier, noun) and the vocabulary explored.
CommandSlots == 1 .. 3
Vocab == 0 .. 1

\* Scores explored: the online network prefers word 1 (all scores negative),
\* word 0, or ties; the target network prefers word 1 or word 0.
OnlineRanks == {<<RInt(-2), RInt(-1)>>, <<ROne, RZero>>, <<ROne, ROne>>}
TargetRanks == {<<RInt(-1), RInt(2)>>, <<RInt(2), RInt(-1)>>}
WordMasks == [Vocab -> {0, 1}]

\* Score of word w in the tuple ar (words are numbered from 0).
RankOf(ar, w) == ar[w + 1]

\* torch.min(ar, -1)
RECURSIVE MinRank(_, _)
MinRank(ar, w) ==
    IF w = 0 THEN RankOf(ar, 0) ELSE RMin(RankOf(ar, w), MinRank(ar, w - 1))

\* The mask applied to the raw scores.
MaskedUnshifted(ar, mask, w) == RMul(RankOf(ar, w), RInt(mask[w]))

\* ar = ar - min + 1e-2; ar = ar * word_mask
ShiftedMasked(ar, mask, w) ==
    RMul(RAdd(RSub(RankOf(ar, w), MinRank(ar, Cardinality(Vocab) - 1)), Rat(1, 100)),
         RInt(mask[w]))

\* torch.argmax(ar, -1): the first index holding the maximal value.
ArgMax(ar, mask) ==
    CHOOSE w \in Vocab :
        /\ \A x \in Vocab : RLe(ShiftedMasked(ar, mask, x), ShiftedMasked(ar, mask, w))
        /\ \A x \in Vocab : x < w => RLt(ShiftedMasked(ar, mask, x), ShiftedMasked(ar, mask, w))

\* The target network selects the action whatever double_dqn says.
SelectingAlwaysTarget(dd) == "target"

\* The network whose scores choose_maxQ_command receives.
SelectingNet(dd) == IF dd THEN "online" ELSE "target"

notNextQ == <<configVars, counterVars, returnVars, projVars, treeVars, memVars, updateVars,
              a2cVars, episodeVars, finishVars, trainVars, limitVars>>

InitNextQ ==
    /\ IdleConfig /\ IdleCounter /\ IdleReturns /\ IdleProj /\ IdleTree /\ IdleMem
    /\ IdleUpdate /\ IdleA2C /\ IdleEpisode /\ IdleFinish /\ IdleTrain
    /\ IdleLimit
    /\ double_dqn \in BOOLEAN
    /\ next_local_word_masks \in [CommandSlots -> WordMasks]
    /\ online_next_ranks \in [CommandSlots -> OnlineRanks]
    /\ target_next_ranks \in [CommandSlots -> TargetRanks]
    /\ next_word_indices = <<>>
    /\ next_word_qvalues = <<>>
    /\ next_q = RZero
    /\ nextq_pc = "ranks"

\* next_word_indices = self.choose_maxQ_command(next_action_ranks, next_local_word_masks)
\* on the online scores with double_dqn, on the target scores without.
ChooseNextWords ==
    /\ nextq_pc = "ranks"
    /\ next_word_indices' =
          [k \in CommandSlots |->
              ArgMax(IF SelectingNet(double_dqn) = "online"
                     THEN online_next_ranks[k] ELSE target_next_ranks[k],
                     next_local_word_masks[k])]
    /\ nextq_pc' = "chosen"
    /\ UNCHANGED <<double_dqn, next_local_word_masks, online_next_ranks, target_next_ranks,
                   next_word_qvalues, next_q>>
    /\ UNCHANGED notNextQ

\* next_word_qvalues = [ez_gather_dim_1(w_rank, idx) ...] on the target scores,
\* next_q_value = torch.mean(torch.stack(next_word_qvalues, -1), -1)
GatherNextQ ==
    /\ nextq_pc = "chosen"
    /\ next_word_qvalues' =
          [k \in CommandSlots |-> RankOf(target_next_ranks[k], next_word_indices[k])]
    /\ next_q' = RDiv(RAdd(RAdd(next_word_qvalues'[1], next_word_qvalues'[2]),
                           next_word_qvalues'[3]), RInt(3))
    /\ nextq_pc' = "valued"
    /\ UNCHANGED <<double_dqn, next_local_word_masks, online_next_ranks, target_next_ranks,
                   next_word_indices>>
    /\ UNCHANGED notNextQ

NextNextQ == ChooseNextWords \/ GatherNextQ

SpecNextQ == InitNextQ /\ [][NextNextQ]_vars

\* Words the mask of slot k allows.
Allowed(k) == {w \in Vocab : next_local_word_masks[k][w] = 1}

StepChoices ==
    {[cmd |-> "wait", counting |-> 0, valid |-> 0],
     [cmd |-> "go", counting |-> 1, valid |-> 1],
     [cmd |-> "go", counting |-> 0, valid |-> 1]}

\* Intrinsic reward of every step when the curiosity reward is enabled.
IntrinsicReward == Rat(1, 8)

\* Number of cached steps, and the running mask of game g at cached step i (from 1).
CachedSteps == Len(transition_cache)
Running(g, i) == transition_cache[i].mask[g]

\* game_finishing_mask: 1 at the last step at which the game was running.
Finishing(g, i) == Running(g, i) - (IF i < CachedSteps THEN Running(g, i + 1) ELSE 0)

\* The two bonuses are added whether the game is running or not.
CommandRewardUnmasked(g, i) ==
    RAdd(RAdd(sufficient_info_reward_np'[g][i],
              RMul(RInt(transition_cache[i].counting[g]), revisit_counting_lambda)),
         RAdd(RMul(RInt(transition_cache[i].valid[g]), valid_command_bonus_lambda),
              IF use_intrinsic_reward THEN RMul(IntrinsicReward, RInt(Running(g, i))) ELSE RZero))

\* command_rewards_np = sufficient_info_reward_np
\*     + counting_rewards_np * game_running_mask.T * agent.revisit_counting_lambda
\*     + valid_command_rewards_np * game_running_mask.T * agent.valid_command_bonus_lambda
\* command_rewards = command_rewards + intrinsic_rewards * game_running_mask.T
CommandReward(g, i) ==
    RAdd(RAdd(sufficient_info_reward_np'[g][i],
              RMul(RInt(transition_cache[i].counting[g] * Running(g, i)), revisit_counting_lambda)),
         RAdd(RMul(RInt(transition_cache[i].valid[g] * Running(g, i)), valid_command_bonus_lambda),
              IF use_intrinsic_reward THEN RMul(IntrinsicReward, RInt(Running(g, i))) ELSE RZero))

\* The push loop of a game goes on to the end of the cache.
BreakNever(g, i) == FALSE

\* if masks_np[i][b] == 0.0: break
BreakAfter(g, i) == Running(g, i) = 0

\* is_prior = np.sum(command_rewards_np[b], 0) > 0.0
IsPrior(g) == RLt(RZero, RSum([k \in 0 .. CachedSteps - 1 |-> command_rewards[g][k + 1]], CachedSteps))

RECURSIVE GameTransitions(_, _)
\* for i in range(len(transition_cache)): is_final = masks_np[i][b] == 0; push(...)
GameTransitions(g, i) ==
    IF i > CachedSteps THEN <<>>
    ELSE <<[game |-> g, step |-> i - 1, reward |-> command_rewards[g][i],
            is_final |-> (Running(g, i) = 0), is_prior |-> IsPrior(g)]>>
         \o (IF BreakAfter(g, i) THEN <<>> ELSE GameTransitions(g, i + 1))

RECURSIVE AllTransitions(_)
\* for b in range(batch_size): ...
AllTransitions(g) ==
    IF g \notin Batch THEN <<>> ELSE GameTransitions(g, 1) \o AllTransitions(g + 1)

\* The QA transition is pushed when the answer was correct.
QaPushDueWhenCorrect(info, qa, g) == qa[g] # 0

\* if np.sum(sufficient_info_reward_np[b]) == 0.0: continue
QaPushDue(info, qa, g) ==
    RSum([k \in 0 .. Len(info[g]) - 1 |-> info[g][k + 1]], Len(info[g])) # RZero

RECURSIVE QaPushes(_, _, _)
\* for b in range(batch_size): ... agent.qa_replay_memory.push(False, qa_reward_np[b], ...)
QaPushes(g, info, qa) ==
    IF g \notin Batch THEN <<>>
    ELSE (IF QaPushDue(info, qa, g) THEN <<[game |-> g, reward |-> qa[g]]>> ELSE <<>>)
         \o QaPushes(g + 1, info, qa)

\* The flag is set again whenever the previous command was not "wait".
StillInteractingRearmed(g) == IF prev_wait[g] THEN 0 ELSE 1

\* if self.prev_actions[-1][i] == "wait": self.prev_step_is_still_interacting[i] = 0.0
StillInteracting(g) == IF prev_wait[g] THEN 0 ELSE prev_step_is_still_interacting[g]

notEpisode == <<configVars, counterVars, returnVars, projVars, treeVars, memVars, updateVars,
                a2cVars, nextqVars, finishVars, trainVars, limitVars>>

\* agent.init(obs, infos) at the start of an episode batch.
InitEpisode ==
    /\ IdleConfig /\ IdleCounter /\ IdleReturns /\ IdleProj /\ IdleTree /\ IdleMem
    /\ IdleUpdate /\ IdleA2C /\ IdleNextQ /\ IdleFinish /\ IdleTrain
    /\ max_nb_steps_per_episode \in 1 .. MaxSteps
    /\ use_intrinsic_reward \in BOOLEAN
    /\ revisit_counting_lambda = Rat(1, 2)
    /\ valid_command_bonus_lambda = Rat(1, 4)
    /\ step_no = 0
    /\ prev_wait = [g \in Batch |-> FALSE]
    /\ not_finished_yet = [g \in Batch |-> 1]
    /\ prev_step_is_still_interacting = [g \in Batch |-> 1]
    /\ transition_cache = <<>>
    /\ sufficient_info_reward_np = <<>>
    /\ command_rewards = <<>>
    /\ qa_reward_np = <<>>
    /\ qa_pushed = <<>>
    /\ ep_pushed = <<>>
    /\ ep_pc = "steps"

\* One iteration of `for step_no in range(agent.max_nb_steps_per_episode)`:
\* agent.act, the rewards of the step, the forced stop, the cache and the break.
game_step ==
    /\ ep_pc = "steps"
    /\ \E choice \in [Batch -> StepChoices] :
          LET still == [g \in Batch |-> StillInteracting(g)]
              forced == step_no = max_nb_steps_per_episode - 1
              mask == IF forced THEN [g \in Batch |-> 0] ELSE still
              stop == forced \/ (step_no > 0 /\ \A g \in Batch : mask[g] = 0)
          IN  /\ not_finished_yet' = [g \in Batch |->
                    IF choice[g].cmd = "wait" THEN 0 ELSE not_finished_yet[g]]
              /\ prev_step_is_still_interacting' = still
              /\ prev_wait' = [g \in Batch |-> choice[g].cmd = "wait"]
              /\ transition_cache' = Append(transition_cache,
                    [mask |-> mask,
                     counting |-> [g \in Batch |-> choice[g].counting],
                     valid |-> [g \in Batch |-> choice[g].valid]])
              /\ step_no' = IF stop THEN step_no ELSE step_no + 1
              /\ ep_pc' = IF stop THEN "rewards" ELSE "steps"
    /\ UNCHANGED <<use_intrinsic_reward, revisit_counting_lambda, valid_command_bonus_lambda,
                   sufficient_info_reward_np, command_rewards, qa_reward_np, qa_pushed, ep_pushed>>
    /\ UNCHANGED notEpisode

\* After the loop: the sufficient-information reward of every game (0 or 1 at
\* its finishing step), the QA pushes and the shaped reward of every step.
assign_rewards ==
    /\ ep_pc = "rewards"
    /\ \E won \in [Batch -> {0, 1}] :
          /\ sufficient_info_reward_np' =
                [g \in Batch |-> [i \in 1 .. CachedSteps |-> RInt(won[g] * Finishing(g, i))]]
    /\ qa_reward_np' \in [Batch -> {0, 1}]
    /\ qa_pushed' = QaPushes(0, sufficient_info_reward_np', qa_reward_np')
    /\ command_rewards' = [g \in Batch |-> [i \in 1 .. CachedSteps |-> CommandReward(g, i)]]
    /\ ep_pc' = "push"
    /\ UNCHANGED <<use_intrinsic_reward, revisit_counting_lambda, valid_command_bonus_lambda,
                   step_no, prev_wait, not_finished_yet, prev_step_is_still_interacting,
                   transition_cache, ep_pushed>>
    /\ UNCHANGED notEpisode

\* The push loop over the games and the cached steps.
push_transitions ==
    /\ ep_pc = "push"
    /\ ep_pushed' = AllTransitions(0)
    /\ ep_pc' = "done"
    /\ UNCHANGED <<use_intrinsic_reward, revisit_counting_lambda, valid_command_bonus_lambda,
                   step_no, prev_wait, not_finished_yet, prev_step_is_still_interacting,
                   transition_cache, sufficient_info_reward_np, command_rewards, qa_reward_np, qa_pushed>>
    /\ UNCHANGED notEpisode

NextEpisode == game_step \/ assign_rewards \/ push_transitions

SpecEpisode == InitEpisode /\ [][NextEpisode]_vars

\* The transitions pushed for game g, in push order.
PushedOf(g) == SelectSeq(ep_pushed, LAMBDA t : t.game = g)

\* C15: once the pushes of an episode are done, the transitions pushed for
\* each game are the cached steps 0..k of that game in order (a prefix of the
\* episode's steps, at least one), exactly one of them has is_final = True
\* and it is the last one pushed for the game, whether the game stopped by
\* "wait" or was cut at max_nb_steps_per_episode.
C15_IsFinalMarksTrajectoryEnd ==
    ep_pc = "done" =>
        \A g \in Batch :
            LET ts == PushedOf(g)
            IN  /\ Len(ts) >= 1
                /\ Len(ts) <= CachedSteps
                /\ \A k \in 1 .. Len(ts) : ts[k].step = k - 1
                /\ \A k \in 1 .. Len(ts) : ts[k].is_final <=> (k = Len(ts))

\* Reached: one game chose "wait" at step 0 and has two transitions, the
\* other never chose "wait" and was cut at the last step allowed.
C15_Witness ==
    /\ ep_pc = "done"
    /\ max_nb_steps_per_episode > 2
    /\ \E g, h \in Batch :
          /\ Len(PushedOf(g)) = 2
          /\ not_finished_yet[h] = 1
          /\ Len(PushedOf(h)) = max_nb_steps_per_episode
          /\ PushedOf(h)[max_nb_steps_per_episode].is_final

\* C17: the reward stored with the transition of game g at step i is
\* sufficient_info + lambda_count * counting * running + lambda_valid * valid
\* * running (+ intrinsic * running when enabled); where the running mask is 0
\* the two bonuses add nothing and the reward is the sufficient-info reward.
C17_ShapedReward ==
    ep_pc = "done" =>
        \A k \in 1 .. Len(ep_pushed) :
            LET t == ep_pushed[k]
                i == t.step + 1
                run == RInt(transition_cache[i].mask[t.game])
                suff == sufficient_info_reward_np[t.game][i]
                cnt == RMul(RMul(revisit_counting_lambda, RInt(transition_cache[i].counting[t.game])), run)
                vld == RMul(RMul(valid_command_bonus_lambda, RInt(transition_cache[i].valid[t.game])), run)
                intr == IF use_intrinsic_reward THEN RMul(IntrinsicReward, run) ELSE RZero
            IN  /\ t.reward = RAdd(RAdd(suff, RAdd(cnt, vld)), intr)
                /\ run = RZero => t.reward = suff

\* Reached: a pushed transition of a running step that earned both bonuses
\* and the sufficient-information reward, and a pushed final transition whose
\* step had a counting and a valid-command reward but a running mask of 0.
C17_Witness ==
    /\ ep_pc = "done"
    /\ ~use_intrinsic_reward
    /\ \E j, k \in 1 .. Len(ep_pushed) :
          /\ ep_pushed[j].reward = RAdd(ROne, RAdd(revisit_counting_lambda, valid_command_bonus_lambda))
          /\ transition_cache[ep_pushed[k].step + 1].mask[ep_pushed[k].game] = 0
          /\ transition_cache[ep_pushed[k].step + 1].counting[ep_pushed[k].game] = 1
          /\ transition_cache[ep_pushed[k].step + 1].valid[ep_pushed[k].game] = 1
          /\ ep_pushed[k].reward = RZero

(***************************************************************************)
(* End of an episode: Agent.finish_of_episode, called by train() with the  *)
(* episode_no of the episode batch that has just been played.              *)
(***************************************************************************)

\* epsilon_anneal_from / _to and revisit_counting_lambda_anneal_from / _to.
epsilon_anneal_from == ROne
epsilon_anneal_to == Rat(1, 10)
revisit_counting_lambda_anneal_from == Rat(1, 2)
revisit_counting_lambda_anneal_to == RZero

\* Anneal lengths, target-network update frequencies and batch sizes explored.
AnnealEpisodes == {2, 4}
UpdateFrequencies == {1, 2, 3}
BatchSizes == {1, 2, 3}

\* (episode_no + batch_size) % frequency <= episode_no % frequency and not self.a2c
TargetNetDue(ep) ==
    /\ (ep + episode_batch_size) % target_net_update_frequency
          <= ep % target_net_update_frequency
    /\ ~a2c

\* self.epsilon after the call.
EpsilonAfter(ep) ==
    IF ep < learn_start_from_this_episode THEN epsilon
    ELSE IF ep < epsilon_anneal_episodes + learn_start_from_this_episode
         THEN RMax(RSub(epsilon, RDiv(RSub(epsilon_anneal_from, epsilon_anneal_to),
                                      RInt(epsilon_anneal_episodes))), RZero)
         ELSE epsilon

\* One anneal step of the counting weight on its own schedule, floored at 0.
LambdaStep(lam) ==
    RMax(RSub(lam, RDiv(RSub(revisit_counting_lambda_anneal_from,
                             revisit_counting_lambda_anneal_to),
                        RInt(revisit_counting_lambda_anneal_episodes))), RZero)

\* self.revisit_counting_lambda after the call: inside its anneal window the
\* decrement is overwritten by  self.revisit_counting_lambda = max(self.epsilon, 0.0).
LambdaAfter(ep) ==
    IF ep < learn_start_from_this_episode THEN revisit_counting_lambda
    ELSE IF ep < revisit_counting_lambda_anneal_episodes + learn_start_from_this_episode
         THEN RMax(EpsilonAfter(ep), RZero)
         ELSE revisit_counting_lambda

notFinish == <<configVars, counterVars, returnVars, projVars, treeVars, memVars, updateVars,
               nextqVars, trainVars, limitVars>>

\* The agent after load_config, before the first episode.
InitFinish ==
    /\ IdleConfig /\ IdleCounter /\ IdleReturns /\ IdleProj /\ IdleTree /\ IdleMem
    /\ IdleUpdate /\ IdleNextQ /\ IdleTrain
    /\ IdleLimit
    /\ episode_batch_size \in BatchSizes
    /\ learn_start_from_this_episode \in LearnStarts
    /\ episode_no = 0
    /\ a2c_pc = "idle"
    /\ storage = <<>>
    /\ a2c_pushed = 0
    /\ a2c_fresh = <<>>
    /\ a2c_update = NoA2CUpdate
    /\ a2c_used = {}
    /\ a2c_reused = FALSE
    /\ use_intrinsic_reward = FALSE
    /\ valid_command_bonus_lambda = RZero
    /\ step_no = 0
    /\ prev_wait = <<>>
    /\ not_finished_yet = <<>>
    /\ prev_step_is_still_interacting = <<>>
    /\ transition_cache = <<>>
    /\ sufficient_info_reward_np = <<>>
    /\ command_rewards = <<>>
    /\ qa_reward_np = <<>>
    /\ qa_pushed = <<>>
    /\ ep_pushed = <<>>
    /\ ep_pc = "idle"
    /\ a2c \in BOOLEAN
    /\ noisy_net \in BOOLEAN
    /\ target_net_update_frequency \in UpdateFrequencies
    /\ epsilon_anneal_episodes \in (IF noisy_net THEN {-1} ELSE AnnealEpisodes)
    /\ epsilon = (IF noisy_net THEN RZero ELSE epsilon_anneal_from)
    /\ revisit_counting_lambda_anneal_episodes \in AnnealEpisodes
    /\ revisit_counting_lambda = revisit_counting_lambda_anneal_from
    /\ target_updated = FALSE

\* agent.finish_of_episode(episode_no, batch_size), then episode_no += batch_size.
finish_of_episode ==
    /\ episode_no <= max_episode
    /\ target_updated' = TargetNetDue(episode_no)
    /\ epsilon' = EpsilonAfter(episode_no)
    /\ revisit_counting_lambda' = LambdaAfter(episode_no)
    /\ episode_no' = episode_no + episode_batch_size
    /\ UNCHANGED <<a2c, noisy_net, target_net_update_frequency, epsilon_anneal_episodes,
                   revisit_counting_lambda_anneal_episodes, episode_batch_size>>
    /\ UNCHANGED <<learn_start_from_this_episode, a2cRunVars, episodeRunVars>>
    /\ UNCHANGED notFinish

NextFinish == finish_of_episode

SpecFinish == InitFinish /\ [][NextFinish]_vars

\* C20 (as claimed): a finish_of_episode call made with episode_no inside
\* [learn_start, learn_start + revisit_counting_lambda_anneal_episodes) lowers
\* revisit_counting_lambda by (anneal_from - anneal_to) / anneal_episodes,
\* floored at 0, whatever epsilon is.
C20_CountingLambdaOwnSchedule ==
    [][(/\ episode_no' # episode_no
        /\ episode_no >= learn_start_from_this_episode
        /\ episode_no < learn_start_from_this_episode + revisit_counting_lambda_anneal_episodes)
          => revisit_counting_lambda' = LambdaStep(revisit_counting_lambda)]_vars

\* C22: within an episode both interaction flags of every game are 0 or 1 and
\* never go from 0 back to 1; not_finished_yet drops in the act call that
\* chooses "wait" (and only there), prev_step_is_still_interacting drops in the
\* act call after it (and only there), so prev_step_is_still_interacting = 0
\* implies not_finished_yet = 0.
C22_InteractionFlagsOnlyGoDown ==
    /\ [](ep_pc # "idle" =>
            \A g \in Batch :
                /\ not_finished_yet[g] \in {0, 1}
                /\ prev_step_is_still_interacting[g] \in {0, 1}
                /\ prev_step_is_still_interacting[g] = 0 => not_finished_yet[g] = 0)
    /\ [][step_no = 0 /\ transition_cache = <<>> /\ ep_pc = "steps" =>
            \A g \in Batch : not_finished_yet[g] = 1 /\ prev_step_is_still_interacting[g] = 1]_vars
    /\ [][transition_cache' # transition_cache =>
            \A g \in Batch :
                /\ not_finished_yet'[g] <= not_finished_yet[g]
                /\ prev_step_is_still_interacting'[g] <= prev_step_is_still_interacting[g]
                /\ prev_wait'[g] => not_finished_yet'[g] = 0
                /\ not_finished_yet'[g] < not_finished_yet[g] => prev_wait'[g]
                /\ prev_wait[g] => prev_step_is_still_interacting'[g] = 0
                /\ prev_step_is_still_interacting'[g] < prev_step_is_still_interacting[g]
                      => prev_wait[g]]_vars

\* Reached: a game chose "wait", a later act call chose another command for
\* it, and both of its flags are still 0 while another game is still running.
C22_Witness ==
    /\ ep_pc = "steps"
    /\ \E g, h \in Batch :
          /\ ~prev_wait[g]
          /\ not_finished_yet[g] = 0
          /\ prev_step_is_still_interacting[g] = 0
          /\ not_finished_yet[h] = 1

\* C26 (as claimed): a finish_of_episode call copies the online network into
\* the target network exactly when the agent is not actor-critic and the
\* interval (episode_no, episode_no + batch_size] contains a multiple of
\* target_net_update_frequency.
C26_TargetNetSynchronisation ==
    [][episode_no' # episode_no =>
          (target_updated' <=>
              (/\ ~a2c
               /\ \E k \in episode_no + 1 .. episode_no + episode_batch_size :
                      k % target_net_update_frequency = 0))]_vars

(***************************************************************************)
(* The game loop of train() in fixed-dataset mode: the episode test, the   *)
(* actor-critic update before the steps, the step loop with the DQN        *)
(* update, and the end of the episode.                                     *)
(***************************************************************************)

\* Update periods explored.
UpdatePeriods == {1, 2, 3}

\* The loop stops one episode batch early when episode_no reaches max_episode.
LoopBreakAtLimit(ep) == ep >= max_episode

\* if episode_no > agent.max_episode: break
LoopBreak(ep) == ep > max_episode

\* if agent.a2c and episode_no > agent.learn_start_from_this_episode
A2CUpdateDue(ep) == a2c /\ ep > learn_start_from_this_episode

\* The step test without the start threshold.
DqnUpdateDueAnyEpisode(ep, total) == total % update_per_k_game_steps = 0 /\ ~a2c

\* if episode_no >= agent.learn_start_from_this_episode
\*    and step_in_total % agent.update_per_k_game_steps == 0: if not agent.a2c
DqnUpdateDue(ep, total) ==
    /\ ep >= learn_start_from_this_episode
    /\ total % update_per_k_game_steps = 0
    /\ ~a2c

notTrain == <<configVars, counterVars, returnVars, projVars, treeVars, memVars, updateVars,
              nextqVars, limitVars>>

\* train() before the first test of the game loop.
InitTrain ==
    /\ IdleConfig /\ IdleCounter /\ IdleReturns /\ IdleProj /\ IdleTree /\ IdleMem
    /\ IdleUpdate /\ IdleNextQ
    /\ max_nb_steps_per_episode \in 1 .. MaxSteps
    /\ learn_start_from_this_episode \in LearnStarts
    /\ episode_no = 0
    /\ a2c_pc = "idle"
    /\ storage = <<>>
    /\ a2c_pushed = 0
    /\ a2c_fresh = <<>>
    /\ a2c_update = NoA2CUpdate
    /\ a2c_used = {}
    /\ a2c_reused = FALSE
    /\ use_intrinsic_reward = FALSE
    /\ valid_command_bonus_lambda = RZero
    /\ step_no = 0
    /\ prev_wait = <<>>
    /\ not_finished_yet = <<>>
    /\ prev_step_is_still_interacting = <<>>
    /\ transition_cache = <<>>
    /\ sufficient_info_reward_np = <<>>
    /\ command_rewards = <<>>
    /\ qa_reward_np = <<>>
    /\ qa_pushed = <<>>
    /\ ep_pushed = <<>>
    /\ ep_pc = "idle"
    /\ a2c \in BOOLEAN
    /\ noisy_net = TRUE              \* hence epsilon_anneal_episodes = -1, epsilon = 0.0
    /\ target_net_update_frequency \in UpdateFrequencies
    /\ epsilon_anneal_episodes = -1
    /\ epsilon = RZero
    /\ revisit_counting_lambda_anneal_episodes = 2
    /\ revisit_counting_lambda = revisit_counting_lambda_anneal_from
    /\ target_updated = FALSE
    /\ episode_batch_size = batch_size
    /\ update_per_k_game_steps \in UpdatePeriods
    /\ step_in_total = 0
    /\ train_pc = "loop"
    /\ episodes_run = 0
    /\ steps_run = 0
    /\ updates_in_episode = 0
    /\ last_update = NoTrainUpdate

\* `if episode_no > agent.max_episode: break`
train_break ==
    /\ train_pc = "loop"
    /\ LoopBreak(episode_no)
    /\ train_pc' = "end"
    /\ UNCHANGED <<update_per_k_game_steps, step_in_total, episodes_run, steps_run,
                   updates_in_episode, last_update>>
    /\ UNCHANGED <<a2cVars, episodeVars, finishVars>>
    /\ UNCHANGED notTrain

\* The start of an episode batch up to the step loop, with the actor-critic
\* update (update_interaction, then update_qa).
train_start_episode ==
    /\ train_pc = "loop"
    /\ ~LoopBreak(episode_no)
    /\ IF A2CUpdateDue(episode_no)
       THEN /\ updates_in_episode' = 1
            /\ last_update' = [mode |-> "a2c", episode_no |-> episode_no,
                               step_in_total |-> step_in_total, place |-> "before steps"]
       ELSE /\ updates_in_episode' = 0
            /\ UNCHANGED last_update
    /\ step_no' = 0
    /\ steps_run' = 0
    /\ train_pc' = "steps"
    /\ UNCHANGED <<update_per_k_game_steps, step_in_total, episodes_run>>
    /\ UNCHANGED <<a2cVars, revisit_counting_lambda, finishVars>>
    /\ UNCHANGED <<use_intrinsic_reward, valid_command_bonus_lambda, prev_wait,
                   not_finished_yet, prev_step_is_still_interacting, transition_cache,
                   sufficient_info_reward_np, command_rewards, qa_reward_np, qa_pushed, ep_pushed, ep_pc>>
    /\ UNCHANGED notTrain

\* One iteration of `for step_no in range(agent.max_nb_steps_per_episode)`;
\* all_stopped: the interaction mask of the step sums to 0.
train_game_step ==
    /\ train_pc = "steps"
    /\ \E all_stopped \in BOOLEAN :
          LET stop == \/ step_no = max_nb_steps_per_episode - 1
                      \/ (step_no > 0 /\ all_stopped)
          IN  /\ step_no' = IF stop THEN step_no ELSE step_no + 1
              /\ train_pc' = IF stop THEN "finish" ELSE "steps"
    /\ IF DqnUpdateDue(episode_no, step_in_total)
       THEN /\ updates_in_episode' = updates_in_episode + 1
            /\ last_update' = [mode |-> "dqn", episode_no |-> episode_no,
                               step_in_total |-> step_in_total, place |-> "game step"]
       ELSE UNCHANGED <<updates_in_episode, last_update>>
    /\ step_in_total' = step_in_total + 1
    /\ steps_run' = steps_run + 1
    /\ UNCHANGED <<update_per_k_game_steps, episodes_run>>
    /\ UNCHANGED <<a2cVars, revisit_counting_lambda, finishVars>>
    /\ UNCHANGED <<use_intrinsic_reward, valid_command_bonus_lambda, prev_wait,
                   not_finished_yet, prev_step_is_still_interacting, transition_cache,
                   sufficient_info_reward_np, command_rewards, qa_reward_np, qa_pushed, ep_pushed, ep_pc>>
    /\ UNCHANGED notTrain

\* agent.finish_of_episode(episode_no, batch_size); episode_no += batch_size
train_finish_episode ==
    /\ train_pc = "finish"
    /\ target_updated' = TargetNetDue(episode_no)
    /\ epsilon' = EpsilonAfter(episode_no)
    /\ revisit_counting_lambda' = LambdaAfter(episode_no)
    /\ episode_no' = episode_no + episode_batch_size
    /\ episodes_run' = episodes_run + 1
    /\ train_pc' = "loop"
    /\ UNCHANGED <<update_per_k_game_steps, step_in_total, steps_run, updates_in_episode,
                   last_update>>
    /\ UNCHANGED <<a2c, noisy_net, target_net_update_frequency, epsilon_anneal_episodes,
                   revisit_counting_lambda_anneal_episodes, episode_batch_size>>
    /\ UNCHANGED <<learn_start_from_this_episode, a2cRunVars, episodeRunVars>>
    /\ UNCHANGED notTrain

NextTrain == train_break \/ train_start_episode \/ train_game_step \/ train_finish_episode

SpecTrain == InitTrain /\ [][NextTrain]_vars

\* The loop is a sequential program: it always takes its next step.
SpecTrainFair == SpecTrain /\ WF_vars(NextTrain)

\* C23: every update round is called in an episode with episode_no not below
\* learn_start_from_this_episode; in DQN mode from a game step whose
\* step_in_total is a multiple of update_per_k_game_steps, in actor-critic
\* mode before the first game step and at most once per episode.
C23_NoLearningBeforeStart ==
    /\ [](last_update.mode # "none" =>
            /\ last_update.episode_no >= learn_start_from_this_episode
            /\ last_update.mode = (IF a2c THEN "a2c" ELSE "dqn"))
    /\ [](a2c => updates_in_episode <= 1)
    /\ [][last_update' # last_update =>
            /\ last_update'.episode_no = episode_no
            /\ ~a2c => /\ train_pc = "steps"
                       /\ step_in_total % update_per_k_game_steps = 0
            /\ a2c => /\ train_pc = "loop" /\ train_pc' = "steps"
                      /\ steps_run' = 0]_vars
    /\ [][train_pc = "steps" /\ a2c => UNCHANGED <<last_update, updates_in_episode>>]_vars

\* Reached: training ended with warm-up episodes in which nothing was updated
\* and a later episode that was updated.
C23_Witness ==
    /\ train_pc = "end"
    /\ learn_start_from_this_episode > 0
    /\ last_update.mode # "none"
    /\ last_update.episode_no >= learn_start_from_this_episode

\* C28: the game loop terminates; it has then run floor(max_episode /
\* batch_size) + 1 episodes, episode_no being the first multiple of batch_size
\* above max_episode, and every episode ran between 1 and
\* max_nb_steps_per_episode steps.
C28_TrainingLoopTerminates ==
    /\ <>(train_pc = "end")
    /\ [](train_pc = "end" =>
            /\ episodes_run = (max_episode \div episode_batch_size) + 1
            /\ episode_no = episodes_run * episode_batch_size
            /\ episode_no > max_episode
            /\ episode_no - episode_batch_size <= max_episode)
    /\ [](train_pc = "finish" => steps_run >= 1 /\ steps_run <= max_nb_steps_per_episode)
    /\ [][train_pc = "finish" => episode_no' = episode_no + episode_batch_size]_vars

\* Reached: the loop has ended after more than one episode, the last of which
\* was cut at max_nb_steps_per_episode.
C28_Witness ==
    /\ train_pc = "end"
    /\ episodes_run > 1
    /\ steps_run = max_nb_steps_per_episode

\* C24 (as claimed): when the step loop of an episode has ended, for every
\* game the finishing mask is 0 or 1 at every cached step and is 1 at exactly
\* one step, the last step at which the game's running mask is 1, for every
\* max_nb_steps_per_episode >= 1.
C24_ExactlyOneFinishingStep ==
    ep_pc \in {"rewards", "push", "done"} =>
        \A g \in Batch :
            /\ \A i \in 1 .. CachedSteps : Finishing(g, i) \in {0, 1}
            /\ Cardinality({i \in 1 .. CachedSteps : Finishing(g, i) = 1}) = 1
            /\ \A i \in 1 .. CachedSteps :
                  Finishing(g, i) = 1 <=>
                      /\ Running(g, i) = 1
                      /\ \A j \in i + 1 .. CachedSteps : Running(g, j) = 0

\* C25: after the QA pushes of an episode, each game has exactly one QA
\* transition in the QA memory when the sum of its sufficient-information
\* rewards is not 0 and none when it is 0, whether its answer was correct or
\* not; the transition carries the game's QA reward.
C25_QaPushedOnlyWhenInformative ==
    ep_pc \in {"push", "done"} =>
        \A g \in Batch :
            LET total == RSum([k \in 0 .. CachedSteps - 1 |->
                                   sufficient_info_reward_np[g][k + 1]], CachedSteps)
                mine == SelectSeq(qa_pushed, LAMBDA t : t.game = g)
            IN  /\ Len(mine) = (IF total # RZero THEN 1 ELSE 0)
                /\ \A k \in 1 .. Len(mine) : mine[k].reward = qa_reward_np[g]

\* Reached: one game was informative but answered wrongly and was pushed,
\* another answered correctly without sufficient information and was not.
C25_Witness ==
    /\ ep_pc = "done"
    /\ \E g, h \in Batch :
          /\ qa_reward_np[g] = 0
          /\ \E k \in 1 .. Len(qa_pushed) : qa_pushed[k].game = g
          /\ qa_reward_np[h] = 1
          /\ \A k \in 1 .. Len(qa_pushed) : qa_pushed[k].game # h

\* C27: in every command slot whose word mask has an entry equal to 1, the
\* index returned by choose_maxQ_command has mask entry 1, whatever the scores
\* of the selecting network are (negative, equal or mixed).
C27_MaskedGreedyChoiceAdmissible ==
    nextq_pc \in {"chosen", "valued"} =>
        \A k \in CommandSlots :
            (\E w \in Vocab : next_local_word_masks[k][w] = 1)
                => next_local_word_masks[k][next_word_indices[k]] = 1

\* Reached: the online network selects; one slot has only negative scores and
\* its mask allows only the lowest-scored word, another slot has equal scores
\* and its mask allows only the last word.
C27_Witness ==
    /\ nextq_pc = "chosen"
    /\ double_dqn
    /\ \E k, j \in CommandSlots :
          /\ online_next_ranks[k] = <<RInt(-2), RInt(-1)>>
          /\ next_local_word_masks[k] = [w \in Vocab |-> IF w = 0 THEN 1 ELSE 0]
          /\ next_word_indices[k] = 0
          /\ online_next_ranks[j] = <<ROne, ROne>>
          /\ next_local_word_masks[j] = [w \in Vocab |-> IF w = 1 THEN 1 ELSE 0]
          /\ next_word_indices[j] = 1

\* C29: after the floor/ceil nudge, for every sample and every atom the bin
\* indices satisfy 0 <= l, u = l + 1 and u <= atoms - 1 (with l <= b <= u), so
\* both index_add_ positions l + offset and u + offset lie in the sample's own
\* row of m.
C29_ProjectionBinsInRange ==
    proj_pc \in {"nudged", "done"} =>
        \A s \in Batch : \A i \in Atoms :
            /\ 0 <= l[s][i]
            /\ u[s][i] = l[s][i] + 1
            /\ u[s][i] <= atoms - 1
            /\ RLe(RInt(l[s][i]), b[s][i]) /\ RLe(b[s][i], RInt(u[s][i]))
            /\ {l[s][i] + offset(s), u[s][i] + offset(s)}
                  \subseteq s * atoms .. s * atoms + atoms - 1

\* Reached: bins computed with one atom landing on the lowest support point,
\* one on the highest and one strictly between two support points.
C29_Witness ==
    /\ proj_pc = "nudged"
    /\ \E s, t, r \in Batch : \E i, j, k \in Atoms :
          /\ b[s][i] = RZero /\ l[s][i] = 0 /\ u[s][i] = 1
          /\ b[t][j] = RInt(atoms - 1) /\ l[t][j] = atoms - 2 /\ u[t][j] = atoms - 1
          /\ b[r][k].d # 1 /\ u[r][k] = l[r][k] + 1

\* C30: a get_binarized_count call with update=False leaves, for every game
\* slot and every key, the stored count as seen by later calls (a missing key
\* counting as 0.0) unchanged, and with it the value the next call would
\* return for either value of update.
C30_ReadOnlyCountHasNoLastingEffect ==
    [][(count_call'.kind = "count" /\ ~count_call'.update) =>
          \A i \in Slots : \A k \in Keys :
              /\ (IF k \in DOMAIN binarized_counter_dict'[i]
                  THEN binarized_counter_dict'[i][k] ELSE 0)
                    = (IF k \in DOMAIN binarized_counter_dict[i]
                       THEN binarized_counter_dict[i][k] ELSE 0)
              /\ \A upd \in BOOLEAN :
                    CountStep(binarized_counter_dict'[i], k, upd).r
                        = CountStep(binarized_counter_dict[i], k, upd).r]_vars

\* Reached: a read-only call has just inserted a key it had never seen (stored
\* count 0.0) in one slot, and read a key visited once in the other slot.
C30_Witness ==
    /\ count_call.kind = "count"
    /\ ~count_call.update
    /\ \E i, j \in Slots :
          /\ count_hist[i][count_call.obs[i]] = <<>>
          /\ binarized_counter_dict[i][count_call.obs[i]] = 0
          /\ binarized_counter_dict[j][count_call.obs[j]] = 1
          /\ count_rewards[j] = 1

====
